---- MODULE Spec2Model ----
(***************************************************************************)
(* uni-tracker: the SQLite-backed services of api/db.ts (ProfileService,   *)
(* TaskGenerator, UniversityService, TaskService) and the HTTP handlers    *)
(* that call them.                                                         *)
(*                                                                         *)
(* Conventions of the model                                                *)
(*   - a NULL column / undefined field is 0 for numbers and dates and ""   *)
(*     for text: the code tests these fields by truthiness only            *)
(*     (`x || null`, `!profile.satActual`), which treats 0, NULL and       *)
(*     undefined alike;                                                    *)
(*   - a calendar date 'YYYY-MM-DD' is its day number, 2026-01-01 = 1      *)
(*     (2026-11-01 = 305, 2026-10-02 = 275, 2027-01-05 = 370);             *)
(*   - IELTS scores are in tenths (7.0 = 70);                              *)
(*   - a task title is the name of its template; the university name the   *)
(*     template embeds is determined by universityId.                      *)
(***************************************************************************)
EXTENDS Integers, Sequences, FiniteSets, TLC

\* Bounds of the model: rows ever inserted into universities / tasks.
MaxUniversities == 2
MaxTasks == 3

VARIABLES
  universities,      \* table universities: set of rows
  tasks,             \* table tasks: set of rows
  profile,           \* table profile: set of rows
  nextUniversityId,  \* AUTOINCREMENT counters
  nextTaskId,
  nextProfileId,
  tz,                \* time zone of the server process
  response,          \* what the last request was answered with
  requests           \* the requests being handled store call by store call

vars == <<universities, tasks, profile, nextUniversityId, nextTaskId,
          nextProfileId, tz, response, requests>>

----------------------------------------------------------------------------
(* Requirements: the JSON text column universities.requirements.           *)

NoDesc == [present |-> FALSE, required |-> FALSE, minScore |-> 0, avgScore |-> 0, count |-> 0]

Desc(required, minScore, avgScore, count) ==
  [present |-> TRUE, required |-> required, minScore |-> minScore,
   avgScore |-> avgScore, count |-> count]

\* interface UniversityRequirements, every kind absent: the object {}
EmptyRequirements ==
  [sat |-> NoDesc, ielts |-> NoDesc, toefl |-> NoDesc, transcripts |-> NoDesc,
   recommendations |-> NoDesc, essays |-> NoDesc, interview |-> NoDesc]

\* JSON.stringify(requirements)
JSONstringify(map) == [text |-> "json", map |-> map]

\* a NULL column, and a text JSON.parse rejects
NullText == [text |-> "", map |-> EmptyRequirements]
MalformedText == [text |-> "malformed", map |-> EmptyRequirements]

\* university.requirements ? JSON.parse(university.requirements) : {}
\* ok = FALSE: JSON.parse throws a SyntaxError
parseRequirements(column) ==
  IF column.text = "" THEN [ok |-> TRUE, value |-> EmptyRequirements]
  ELSE IF column.text = "json" THEN [ok |-> TRUE, value |-> column.map]
  ELSE [ok |-> FALSE, value |-> EmptyRequirements]

\* transcripts taken as required of every university
deriveRequirements_Transcripts(u) ==
  [EmptyRequirements EXCEPT !.transcripts = Desc(TRUE, 0, 0, 0)]

\* UniversityService.create / populateUniversityRequirements: the mapping
\* derived from the flat fields
deriveRequirements(u) ==
  [sat |-> IF u.satMin # 0 \/ u.satAvg # 0
             THEN Desc(TRUE, u.satMin, u.satAvg, 0) ELSE NoDesc,
   ielts |-> IF u.ieltsMin # 0 \/ u.ieltsAvg # 0
             THEN Desc(TRUE, IF u.ieltsMin # 0 THEN u.ieltsMin ELSE u.ieltsAvg, 0, 0)
             ELSE NoDesc,
   toefl |-> IF u.toeflMin # 0 THEN Desc(TRUE, u.toeflMin, 0, 0) ELSE NoDesc,
   transcripts |-> NoDesc,
   recommendations |-> IF u.recLettersRequired # 0
             THEN Desc(TRUE, 0, 0, u.recLettersRequired) ELSE NoDesc,
   essays |-> IF u.essaysRequired # 0
             THEN Desc(TRUE, 0, 0, u.essaysRequired) ELSE NoDesc,
   interview |-> IF u.interviewRequired # 0 THEN Desc(TRUE, 0, 0, 0) ELSE NoDesc]

\* populateUniversityRequirements: the requirements column of every row
\* written from its flat fields (migration 2)
populateUniversityRequirements(db) ==
  [db EXCEPT !.universities =
     {[u EXCEPT !.requirements = JSONstringify(deriveRequirements(u))] : u \in @}]

----------------------------------------------------------------------------
(* The store as one value, so that a service can be applied to it.         *)

Store ==
  [universities |-> universities, tasks |-> tasks, profile |-> profile,
   nextTaskId |-> nextTaskId, nextProfileId |-> nextProfileId, tz |-> tz]

----------------------------------------------------------------------------
(* ProfileService                                                          *)

NoProfile ==
  [id |-> 0, satTarget |-> 0, satActual |-> 0, ieltsScore |-> 0, toeflScore |-> 0,
   transcriptStatus |-> "", recommendationsCount |-> 0, statementStatus |-> "",
   feeBudget |-> 0]

\* SELECT * FROM profile ORDER BY id LIMIT 1; id = 0 stands for undefined
getProfile(db) ==
  IF db.profile = {} THEN NoProfile
  ELSE CHOOSE r \in db.profile : \A q \in db.profile : r.id <= q.id

DefaultProfile(id) ==
  [id |-> id, satTarget |-> 0, satActual |-> 0, ieltsScore |-> 0, toeflScore |-> 0,
   transcriptStatus |-> "missing", recommendationsCount |-> 0,
   statementStatus |-> "not_started", feeBudget |-> 0]

\* INSERT INTO profile (...) VALUES ('missing', 0, 'not_started', now)
createDefaultProfile(db) ==
  [db EXCEPT !.profile = @ \cup {DefaultProfile(db.nextProfileId)},
             !.nextProfileId = @ + 1]

\* ProfileService.getProfile() || ProfileService.createDefaultProfile()
getOrCreateProfile(db) ==
  IF getProfile(db).id # 0 THEN db ELSE createDefaultProfile(db)

ProfileFields ==
  {"satTarget", "satActual", "ieltsScore", "toeflScore", "transcriptStatus",
   "recommendationsCount", "statementStatus", "feeBudget"}

\* `key in updates ? updates.key : row.key`
written(updates, key, old) ==
  IF key \in DOMAIN updates THEN updates[key] ELSE old

\* ProfileService.updateProfile(updates): the row is created when absent,
\* then every one of the eight keys present in updates is written
updateProfile(db, updates) ==
  LET db1 == getOrCreateProfile(db)
      row == getProfile(db1)
      new == [id |-> row.id,
              satTarget |-> written(updates, "satTarget", row.satTarget),
              satActual |-> written(updates, "satActual", row.satActual),
              ieltsScore |-> written(updates, "ieltsScore", row.ieltsScore),
              toeflScore |-> written(updates, "toeflScore", row.toeflScore),
              transcriptStatus |->
                written(updates, "transcriptStatus", row.transcriptStatus),
              recommendationsCount |->
                written(updates, "recommendationsCount", row.recommendationsCount),
              statementStatus |->
                written(updates, "statementStatus", row.statementStatus),
              feeBudget |-> written(updates, "feeBudget", row.feeBudget)]
  IN  [db1 EXCEPT !.profile = (@ \ {row}) \cup {new}]

\* rounding towards zero instead of to the nearest integer
MathRound_Truncated(numerator, denominator) == numerator \div denominator

\* Math.round(numerator / denominator), for numerator >= 0: halves go up
MathRound(numerator, denominator) ==
  (2 * numerator + denominator) \div (2 * denominator)

ReadinessItem(name, complete) == [name |-> name, complete |-> complete]

\* ProfileService.getReadinessScore; of each item the name and `complete`
\* are kept, the status text is left out
getReadinessScore(db) ==
  LET p == getProfile(db)
      items == <<ReadinessItem("SAT Score", p.satActual # 0),
                 ReadinessItem("IELTS/TOEFL", p.ieltsScore # 0 \/ p.toeflScore # 0),
                 ReadinessItem("Transcripts", p.transcriptStatus = "received"
                                                \/ p.transcriptStatus = "submitted"),
                 ReadinessItem("Recommendations", p.recommendationsCount > 0),
                 ReadinessItem("Personal Statement", p.statementStatus = "complete"),
                 ReadinessItem("Application Fee", p.feeBudget # 0)>>
      completed == Cardinality({i \in 1 .. Len(items) : items[i].complete})
  IN  IF p.id = 0
      THEN [score |-> 0, total |-> 6, completed |-> 0, items |-> <<>>]
      ELSE [score |-> MathRound(completed * 100, Len(items)), total |-> Len(items),
            completed |-> completed, items |-> items]

\* UPDATE profile SET key = value, ... WHERE id = ?
updateProfileRow(db, id, updates) ==
  [db EXCEPT !.profile =
     {IF row.id = id
        THEN [id |-> row.id,
              satTarget |-> written(updates, "satTarget", row.satTarget),
              satActual |-> written(updates, "satActual", row.satActual),
              ieltsScore |-> written(updates, "ieltsScore", row.ieltsScore),
              toeflScore |-> written(updates, "toeflScore", row.toeflScore),
              transcriptStatus |->
                written(updates, "transcriptStatus", row.transcriptStatus),
              recommendationsCount |->
                written(updates, "recommendationsCount", row.recommendationsCount),
              statementStatus |->
                written(updates, "statementStatus", row.statementStatus),
              feeBudget |-> written(updates, "feeBudget", row.feeBudget)]
        ELSE row : row \in @}]

----------------------------------------------------------------------------
(* TaskService                                                             *)

\* TaskService.getAll: SELECT ... FROM tasks (the order is not modelled)
TaskService_getAll(db) == db.tasks

\* INSERT OR REPLACE keyed by university and title instead of INSERT
TaskService_create_Replace(db, task) ==
  [db EXCEPT !.tasks = {t \in @ : ~(t.universityId = task.universityId
                                     /\ t.title = task.title)}
                       \cup {[id |-> db.nextTaskId,
                               universityId |-> task.universityId,
                               title |-> task.title,
                               dueDate |-> task.dueDate,
                               status |-> task.status,
                               priority |-> task.priority,
                               profileItemType |-> task.profileItemType,
                               completedAt |-> task.completedAt]},
             !.nextTaskId = @ + 1]

\* TaskService.create: INSERT INTO tasks; the row gets the next id
TaskService_create(db, task) ==
  [db EXCEPT !.tasks = @ \cup {[id |-> db.nextTaskId,
                                universityId |-> task.universityId,
                                title |-> task.title,
                                dueDate |-> task.dueDate,
                                status |-> task.status,
                                priority |-> task.priority,
                                profileItemType |-> task.profileItemType,
                                completedAt |-> task.completedAt]},
             !.nextTaskId = @ + 1]

\* TaskService.getByUniversity: SELECT ... FROM tasks WHERE universityId = ?
getByUniversity(db, universityId) ==
  {t \in db.tasks : t.universityId = universityId}

\* the guard dropped: no university ever counts as having a suggestion
hasSuggestedTasks_Never(db, universityId) == FALSE

\* the guard looking for the wrong status
hasSuggestedTasks_Todo(db, universityId) ==
  \E t \in getByUniversity(db, universityId) : t.status = "todo"

\* the guard not restricted to the university: any suggested task counts
hasSuggestedTasks_Any(db, universityId) ==
  \E t \in db.tasks : t.status = "suggested"

\* the guard counting every task that is not done
hasSuggestedTasks_Open(db, universityId) ==
  \E t \in getByUniversity(db, universityId) : t.status # "done"

\* existingTasks.some(t => t.status === 'suggested')
hasSuggestedTasks(db, universityId) ==
  \E t \in getByUniversity(db, universityId) : t.status = "suggested"

\* TaskService.update(id, updates): UPDATE tasks SET key = value, ... WHERE id = ?
TaskService_update(db, id, updates) ==
  [db EXCEPT !.tasks =
     {IF t.id = id
        THEN [id |-> t.id,
              universityId |-> written(updates, "universityId", t.universityId),
              title |-> written(updates, "title", t.title),
              dueDate |-> written(updates, "dueDate", t.dueDate),
              status |-> written(updates, "status", t.status),
              priority |-> written(updates, "priority", t.priority),
              profileItemType |-> written(updates, "profileItemType", t.profileItemType),
              completedAt |-> written(updates, "completedAt", t.completedAt)]
        ELSE t : t \in @}]

\* TaskService.delete(id): DELETE FROM tasks WHERE id = ?
TaskService_delete(db, id) ==
  [db EXCEPT !.tasks = {t \in @ : t.id # id}]

\* Tasks.tsx addTask: the body of the POST it sends; the form has no
\* university and no profile item
newTask ==
  [universityId |-> 0, title |-> "user task", dueDate |-> 0, status |-> "todo",
   priority |-> "medium", profileItemType |-> "", completedAt |-> 0]

\* the status sent alone
toggleTask_StatusOnly(task) ==
  [status |-> IF task.status = "done" THEN "todo" ELSE "done"]

\* Tasks.tsx toggleTask: the body of the PUT it sends
toggleTask(task) ==
  [status |-> IF task.status = "done" THEN "todo" ELSE "done",
   completedAt |-> IF task.status = "done" THEN 0 ELSE 1]

----------------------------------------------------------------------------
(* UniversityService                                                       *)

\* SELECT * FROM universities WHERE id = ?  (the set of matching rows)
getById(db, id) == {u \in db.universities : u.id = id}

\* ORDER BY ranking ASC, name ASC: NULL rankings (0) first; names are not
\* modelled, rows of equal ranking come in insertion (id) order
listedBefore(a, b) ==
  a.ranking < b.ranking \/ (a.ranking = b.ranking /\ a.id < b.id)

RECURSIVE sortUniversities(_)
sortUniversities(rows) ==
  IF rows = {} THEN <<>>
  ELSE LET first == CHOOSE a \in rows : \A b \in rows \ {a} : listedBefore(a, b)
       IN  <<first>> \o sortUniversities(rows \ {first})

\* UniversityService.getAll
getAll(db) == sortUniversities(db.universities)

----------------------------------------------------------------------------
(* TaskGenerator.generateTasksForUniversity                                *)

TimeZones == {"UTC", "America/New_York"}

\* The deadlines whose UTC midnight lies in Eastern standard time while the
\* local day 30 days earlier lies in daylight time: 2026-11-02 .. 2026-12-01.
OffsetGrowsBack == 306 .. 335

\* new Date(deadline); setDate(getDate() - 30); toISOString().split('T')[0]:
\* the text is parsed as UTC midnight, the 30 days are taken off the LOCAL
\* calendar day at the same local time, and the result is printed in UTC.
\* Where the local UTC offset was one hour larger 30 days earlier, the
\* instant is 23:00 UTC of the day before.
minus30Days(deadline, zone) ==
  IF zone = "America/New_York" /\ deadline \in OffsetGrowsBack
  THEN deadline - 30 - 1
  ELSE deadline - 30

\* university.deadlineEarly || university.deadlineRegular
chosenDeadline(university) ==
  IF university.deadlineEarly # 0 THEN university.deadlineEarly
  ELSE university.deadlineRegular

\* let dueDate; if (deadlineEarly || deadlineRegular) { ... }
computeDueDate(university, zone) ==
  IF university.deadlineEarly # 0 \/ university.deadlineRegular # 0
  THEN minus30Days(chosenDeadline(university), zone)
  ELSE 0

Suggestion(title, priority, profileItemType) ==
  [title |-> title, priority |-> priority, profileItemType |-> profileItemType]

\* // Check SAT requirement
satRule(requirements, p) ==
  IF requirements.sat.required /\ p.satActual = 0
  THEN <<Suggestion("Take SAT", "high", "sat_actual")>>
  ELSE IF requirements.sat.required /\ p.satActual # 0
          /\ requirements.sat.minScore # 0
          /\ p.satActual < requirements.sat.minScore
  THEN <<Suggestion("Retake SAT", "high", "sat_actual")>>
  ELSE <<>>

\* the profile item named after the test the university requires
englishRule_ByRequirement(requirements, p) ==
  IF (requirements.ielts.required \/ requirements.toefl.required)
     /\ ~(p.ieltsScore # 0 \/ p.toeflScore # 0)
  THEN <<Suggestion("Take English Proficiency Test", "high",
                    IF requirements.ielts.required THEN "ieltsScore" ELSE "toeflScore")>>
  ELSE <<>>

\* // Check IELTS/TOEFL requirement
englishRule(requirements, p) ==
  IF (requirements.ielts.required \/ requirements.toefl.required)
     /\ ~(p.ieltsScore # 0 \/ p.toeflScore # 0)
  THEN <<Suggestion("Take English Proficiency Test", "high",
                    IF p.ieltsScore # 0 THEN "ieltsScore" ELSE "toeflScore")>>
  ELSE <<>>

\* // Check Transcripts requirement
transcriptsRule(requirements, p) ==
  IF requirements.transcripts.required /\ p.transcriptStatus = "missing"
  THEN <<Suggestion("Request transcripts", "high", "transcriptStatus")>>
  ELSE <<>>

\* the count used as it is, without the default
requiredCount_NoDefault(requirements) == requirements.recommendations.count

\* requirements.recommendations.count || 1
requiredCount(requirements) ==
  IF requirements.recommendations.count # 0
  THEN requirements.recommendations.count ELSE 1

\* a truthy count taken for the requirement, `required` not looked at
recommendationsRule_CountOnly(requirements, p) ==
  IF p.recommendationsCount < requirements.recommendations.count
  THEN <<Suggestion("Request recommendation letters", "high", "recommendationsCount")>>
  ELSE <<>>

\* // Check Recommendations requirement
recommendationsRule(requirements, p) ==
  IF requirements.recommendations.required
     /\ p.recommendationsCount < requiredCount(requirements)
  THEN <<Suggestion("Request recommendation letters", "high", "recommendationsCount")>>
  ELSE <<>>

\* // Check Essays requirement
essaysRule(requirements, p) ==
  IF requirements.essays.required /\ p.statementStatus = "not_started"
  THEN <<Suggestion("Write essays", "medium", "statementStatus")>>
  ELSE <<>>

\* // Check Interview requirement
interviewRule(requirements, p) ==
  IF requirements.interview.required
  THEN <<Suggestion("Prepare for interview", "medium", "")>>
  ELSE <<>>

\* the rules in the order the function runs them
firedRules(requirements, p) ==
  satRule(requirements, p) \o englishRule(requirements, p)
    \o transcriptsRule(requirements, p) \o recommendationsRule(requirements, p)
    \o essaysRule(requirements, p) \o interviewRule(requirements, p)

\* the tasks created as accepted ones
RECURSIVE createSuggestions_Todo(_, _, _, _)
createSuggestions_Todo(db, universityId, dueDate, suggestions) ==
  IF suggestions = <<>> THEN db
  ELSE createSuggestions_Todo(
         TaskService_create(db, [universityId |-> universityId,
                                 title |-> Head(suggestions).title,
                                 dueDate |-> dueDate,
                                 status |-> "todo",
                                 priority |-> Head(suggestions).priority,
                                 profileItemType |-> Head(suggestions).profileItemType,
                                 completedAt |-> 0]),
         universityId, dueDate, Tail(suggestions))

\* a suggestion the university already has is not created again
RECURSIVE createSuggestions_SkipExisting(_, _, _, _)
createSuggestions_SkipExisting(db, universityId, dueDate, suggestions) ==
  IF suggestions = <<>> THEN db
  ELSE IF \E t \in db.tasks : /\ t.universityId = universityId
                               /\ t.title = Head(suggestions).title
                               /\ t.status = "suggested"
  THEN createSuggestions_SkipExisting(db, universityId, dueDate, Tail(suggestions))
  ELSE createSuggestions_SkipExisting(
         TaskService_create(db, [universityId |-> universityId,
                                 title |-> Head(suggestions).title,
                                 dueDate |-> dueDate,
                                 status |-> "suggested",
                                 priority |-> Head(suggestions).priority,
                                 profileItemType |-> Head(suggestions).profileItemType,
                                 completedAt |-> 0]),
         universityId, dueDate, Tail(suggestions))

\* the TaskService.create calls of one generateTasksForUniversity run
RECURSIVE createSuggestions(_, _, _, _)
createSuggestions(db, universityId, dueDate, suggestions) ==
  IF suggestions = <<>> THEN db
  ELSE createSuggestions(
         TaskService_create(db, [universityId |-> universityId,
                                 title |-> Head(suggestions).title,
                                 dueDate |-> dueDate,
                                 status |-> "suggested",
                                 priority |-> Head(suggestions).priority,
                                 profileItemType |-> Head(suggestions).profileItemType,
                                 completedAt |-> 0]),
         universityId, dueDate, Tail(suggestions))

\* The answer of a generator call: the store it leaves, the ids of the tasks
\* it returns, and the error it throws ("" when it returns).
Answer(db, created, error) == [db |-> db, created |-> created, error |-> error]

generateTasksForUniversity(db, universityId) ==
  IF getById(db, universityId) = {}
  THEN Answer(db, {}, "University not found")
  ELSE
    LET university == CHOOSE u \in getById(db, universityId) : TRUE
        db1 == getOrCreateProfile(db)
        p == getProfile(db1)
        parsed == parseRequirements(university.requirements)
    IN  IF ~parsed.ok THEN Answer(db1, {}, "SyntaxError")
        ELSE
          LET dueDate == computeDueDate(university, db.tz)
              db2 == createSuggestions(db1, university.id, dueDate,
                                       firedRules(parsed.value, p))
          IN  Answer(db2, db1.nextTaskId .. (db2.nextTaskId - 1), "")

----------------------------------------------------------------------------
(* TaskGenerator.generateTasksForProfileUpdate                             *)

\* every changed field taken as relevant
shouldGenerate_Always(requirements, updatedFields) == updatedFields # {}

\* // Check if any updated field is related to requirements
shouldGenerate(requirements, updatedFields) ==
  \/ "satActual" \in updatedFields /\ requirements.sat.required
  \/ ("ieltsScore" \in updatedFields \/ "toeflScore" \in updatedFields)
       /\ (requirements.ielts.required \/ requirements.toefl.required)
  \/ "transcriptStatus" \in updatedFields /\ requirements.transcripts.required
  \/ "recommendationsCount" \in updatedFields /\ requirements.recommendations.required
  \/ "statementStatus" \in updatedFields /\ requirements.essays.required

\* for (const university of universities) { ... }
RECURSIVE forEachUniversity(_, _, _, _)
forEachUniversity(db, list, updatedFields, created) ==
  IF list = <<>> THEN Answer(db, created, "")
  ELSE
    LET university == Head(list)
        parsed == parseRequirements(university.requirements)
    IN  IF ~parsed.ok THEN Answer(db, created, "SyntaxError")
        ELSE IF shouldGenerate(parsed.value, updatedFields)
                /\ ~hasSuggestedTasks(db, university.id)
        THEN LET r == generateTasksForUniversity(db, university.id)
             IN  IF r.error # "" THEN Answer(r.db, created \cup r.created, r.error)
                 ELSE forEachUniversity(r.db, Tail(list), updatedFields,
                                        created \cup r.created)
        ELSE forEachUniversity(db, Tail(list), updatedFields, created)

\* the profile created when absent, as the other entry points do
generateTasksForProfileUpdate_Lazy(db, updatedFields) ==
  forEachUniversity(getOrCreateProfile(db), getAll(getOrCreateProfile(db)),
                    updatedFields, {})

generateTasksForProfileUpdate(db, updatedFields) ==
  IF getProfile(db).id = 0 THEN Answer(db, {}, "")
  ELSE forEachUniversity(db, getAll(db), updatedFields, {})

----------------------------------------------------------------------------
(* UniversityService.create / update / delete                              *)

\* UniversityService.create(university): the row is inserted with the
\* requirements derived from its flat fields, then tasks are generated for
\* it; an error of the generator is caught and logged.
UniversityService_create(db, id, university) ==
  LET row == [id |-> id,
              ranking |-> university.ranking,
              deadlineEarly |-> university.deadlineEarly,
              deadlineRegular |-> university.deadlineRegular,
              deadlineTransfer |-> university.deadlineTransfer,
              satMin |-> university.satMin,
              satAvg |-> university.satAvg,
              ieltsMin |-> university.ieltsMin,
              ieltsAvg |-> university.ieltsAvg,
              toeflMin |-> university.toeflMin,
              recLettersRequired |-> university.recLettersRequired,
              essaysRequired |-> university.essaysRequired,
              interviewRequired |-> university.interviewRequired,
              requirements |-> JSONstringify(deriveRequirements(university))]
      db1 == [db EXCEPT !.universities = @ \cup {row}]
  IN  generateTasksForUniversity(db1, id)

\* the requirements column derived again from the flat fields on every update
UniversityService_update_Resync(db, id, updates) ==
  [db EXCEPT !.universities =
     {IF u.id = id
        THEN LET flat == [key \in DOMAIN u |-> written(updates, key, u[key])]
             IN  [flat EXCEPT !.requirements = JSONstringify(deriveRequirements(flat))]
        ELSE u : u \in @}]

\* UniversityService.update(id, updates): UPDATE universities SET key = value
UniversityService_update(db, id, updates) ==
  [db EXCEPT !.universities =
     {IF u.id = id
        THEN [id |-> u.id,
              ranking |-> written(updates, "ranking", u.ranking),
              deadlineEarly |-> written(updates, "deadlineEarly", u.deadlineEarly),
              deadlineRegular |-> written(updates, "deadlineRegular", u.deadlineRegular),
              deadlineTransfer |-> written(updates, "deadlineTransfer", u.deadlineTransfer),
              satMin |-> written(updates, "satMin", u.satMin),
              satAvg |-> written(updates, "satAvg", u.satAvg),
              ieltsMin |-> written(updates, "ieltsMin", u.ieltsMin),
              ieltsAvg |-> written(updates, "ieltsAvg", u.ieltsAvg),
              toeflMin |-> written(updates, "toeflMin", u.toeflMin),
              recLettersRequired |->
                written(updates, "recLettersRequired", u.recLettersRequired),
              essaysRequired |-> written(updates, "essaysRequired", u.essaysRequired),
              interviewRequired |->
                written(updates, "interviewRequired", u.interviewRequired),
              requirements |-> written(updates, "requirements", u.requirements)]
        ELSE u : u \in @}]

\* ON DELETE CASCADE instead of ON DELETE SET NULL
UniversityService_delete_Cascade(db, id, foreignKeys) ==
  [db EXCEPT !.universities = {u \in @ : u.id # id},
             !.tasks = {t \in @ : t.universityId # id}]

\* UniversityService.delete(id): DELETE FROM universities WHERE id = ?
\* tasks.universityId is declared ON DELETE SET NULL, and the code never
\* issues PRAGMA foreign_keys: whether the clause is enforced is the SQLite
\* build's default, so both outcomes are possible.
UniversityService_delete(db, id, foreignKeys) ==
  [db EXCEPT !.universities = {u \in @ : u.id # id},
             !.tasks = {IF foreignKeys /\ t.universityId = id
                          THEN [t EXCEPT !.universityId = 0] ELSE t : t \in @}]

----------------------------------------------------------------------------
(* UniversityDetail: the requirement matcher of the detail view. NULL and  *)
(* a property the object does not have are both 0 where the code only      *)
(* tests truthiness; Undefined is the optional parameter left out, which   *)
(* the code tells from 0.                                                  *)

Undefined == -1

\* !value
falsy(value) == value = Undefined \/ value = 0

\* a || b
or(a, b) == IF falsy(a) THEN b ELSE a

\* a score below the requirement reported as missing
getRequirementStatus_NoPartial(type, uniValue, userValue, count) ==
  IF falsy(uniValue) /\ falsy(count) THEN "not-required"
  ELSE IF count # Undefined
  THEN IF or(userValue, 0) >= count THEN "complete" ELSE "missing"
  ELSE IF ~falsy(uniValue) /\ ~falsy(userValue) /\ userValue >= uniValue
  THEN "complete" ELSE "missing"

\* getRequirementStatus(type, uniValue?, userValue?, count?): the status
\* field of the object it returns
getRequirementStatus(type, uniValue, userValue, count) ==
  IF falsy(uniValue) /\ falsy(count) THEN "not-required"
  ELSE IF count # Undefined
  THEN LET userCount == or(userValue, 0)
       IN  IF userCount >= count THEN "complete"
           ELSE IF userCount > 0 THEN "partial"
           ELSE "missing"
  ELSE IF falsy(userValue) THEN "missing"
  ELSE IF ~falsy(uniValue) /\ userValue >= uniValue THEN "complete"
  ELSE "partial"

\* a property of the object read with a default when the object lacks it
property(object, key) == IF key \in DOMAIN object THEN object[key] ELSE 0

\* // Calculate requirement statuses
\* Profile has no transcriptCount and no interviewStatus column.
requirementStatuses(university, p) ==
  [sat |-> getRequirementStatus("SAT", or(property(university, "satMin"), property(university, "satAvg")), p.satActual, Undefined),
   ielts |-> getRequirementStatus("IELTS", or(property(university, "ieltsMin"), property(university, "ieltsAvg")), p.ieltsScore, Undefined),
   toefl |-> getRequirementStatus("TOEFL", property(university, "toeflMin"), p.toeflScore, Undefined),
   transcript |-> getRequirementStatus("transcript", Undefined, 0, IF falsy(property(university, "gpaMin")) THEN 0 ELSE 1),
   recs |-> getRequirementStatus("recs", Undefined, p.recommendationsCount, or(property(university, "recLettersRequired"), 0)),
   essays |-> getRequirementStatus("essays", Undefined, IF p.statementStatus = "complete" THEN 1 ELSE 0, or(property(university, "essaysRequired"), 0)),
   interview |-> getRequirementStatus("interview", Undefined, 0, or(property(university, "interviewRequired"), 0))]

----------------------------------------------------------------------------
(* What the handlers are given.                                            *)

University(ranking, deadlineEarly, deadlineRegular, deadlineTransfer, satMin, satAvg, ieltsMin, toeflMin, recLettersRequired, essaysRequired, interviewRequired) ==
  [ranking |-> ranking, deadlineEarly |-> deadlineEarly,
   deadlineRegular |-> deadlineRegular, deadlineTransfer |-> deadlineTransfer,
   satMin |-> satMin, satAvg |-> satAvg, ieltsMin |-> ieltsMin, ieltsAvg |-> 0,
   toeflMin |-> toeflMin, recLettersRequired |-> recLettersRequired,
   essaysRequired |-> essaysRequired, interviewRequired |-> interviewRequired]

\* bodies of POST /api/universities
UniversityInputs ==
  { \* SAT avg 1500 and 2 recommendation letters, early deadline 2026-11-01
    University(2, 305, 0, 400, 0, 1500, 0, 0, 2, 0, 0),
    \* SAT min 1500 and an interview; early 2026-12-01, regular 2026-11-16
    University(1, 335, 320, 0, 1500, 0, 0, 0, 0, 0, 1) }

\* bodies of PUT /api/universities/:id that rewrite the requirements column
UniversityUpdates ==
  { [requirements |-> MalformedText] }

\* bodies of POST /api/profile
ProfileUpdates ==
  { [satActual |-> 1550],
    [recommendationsCount |-> 1],
    <<>> }

\* bodies of PUT /api/universities/:id that edit the flat requirement fields
FlatFieldUpdates ==
  { [recLettersRequired |-> 0],
    [satMin |-> 0, satAvg |-> 0, interviewRequired |-> 0],
    [satMin |-> 1600, ieltsMin |-> 70, toeflMin |-> 100, essaysRequired |-> 1,
     interviewRequired |-> 1] }

\* bodies of POST /api/universities over the flat requirement fields
DerivationInputs ==
  {University(0, 305, 0, 0, sat[1], sat[2], ielts, toefl, recs, essays, interview) :
     sat \in {<<0, 0>>, <<1500, 0>>, <<0, 1450>>}, ielts \in {0, 70},
     toefl \in {0, 100}, recs \in {0, 2}, essays \in {0, 1}, interview \in {0, 1}}

UniversityIds == 1 .. MaxUniversities

----------------------------------------------------------------------------
(* The handlers of server.ts. Each answers with res.json(...) (status 200)  *)
(* or, from its catch block, with res.status(500).json({error: message}).  *)
(* Of the body the model keeps the error message and, for generate-tasks,  *)
(* tasksCreated.                                                           *)

\* a response that carries no readiness report
NoReadiness == [score |-> 0, total |-> 0, completed |-> 0, items |-> <<>>]

\* a response that is no rendering of the university detail view
NoStatuses == <<>>

Response(status, error, tasksCreated) ==
  [status |-> status, error |-> error, tasksCreated |-> tasksCreated,
   readiness |-> NoReadiness, statuses |-> NoStatuses]

\* no request has been answered yet
NoResponse == Response(0, "", 0)

\* res.json(data)
Ok == Response(200, "", 0)

\* the inner try/catch left out: the generator's error reaches the outer
\* catch of the handler
saveResponse_Propagated(answer) ==
  IF answer.error = "" THEN Ok ELSE Response(500, answer.error, 0)

\* POST /api/universities and POST /api/profile: an error thrown by the
\* generator is caught and logged, the saved row is the answer
saveResponse(answer) == Ok

WriteStore(db) ==
  /\ universities' = db.universities
  /\ tasks' = db.tasks
  /\ profile' = db.profile
  /\ nextTaskId' = db.nextTaskId
  /\ nextProfileId' = db.nextProfileId
  /\ tz' = tz

\* a request handled with no other request in between
Write(db) ==
  /\ WriteStore(db)
  /\ UNCHANGED requests

\* The requests the server handles at one time. Every `await` of a handler
\* hands control back to the event loop, so two requests interleave between
\* their store calls.
Slots == {1, 2}

\* the handler's position and the values it holds in local variables
IdleRequest ==
  [op |-> "", pc |-> "idle", overlapped |-> FALSE, updates |-> <<>>, pid |-> 0,
   list |-> <<>>, universityId |-> 0, university |-> {}, pending |-> <<>>,
   dueDate |-> 0, error |-> "", created |-> {}]

\* GET /api/profile
GetProfile ==
  /\ Write(getOrCreateProfile(Store))
  /\ response' = Ok
  /\ UNCHANGED nextUniversityId

\* UniversityDetail fetchData and render: GET /api/universities/:id, whose
\* 404 body has none of the fields, GET /api/profile, which creates the row
\* when there is none, and the statuses computed from the two
OpenDetail(id) ==
  LET db1 == getOrCreateProfile(Store)
      university == IF getById(Store, id) = {} THEN [error |-> "Not found"]
                    ELSE CHOOSE u \in getById(Store, id) : TRUE
  IN  /\ Write(db1)
      /\ response' = [Ok EXCEPT !.statuses = requirementStatuses(university, getProfile(db1))]
      /\ UNCHANGED nextUniversityId

\* GET /api/profile/readiness
GetReadiness ==
  /\ response' = [Ok EXCEPT !.readiness = getReadinessScore(Store)]
  /\ UNCHANGED <<universities, tasks, profile, nextUniversityId, nextTaskId,
                 nextProfileId, tz, requests>>

\* POST /api/profile: an error of the generator is caught and logged
PostProfile(updates) ==
  LET db1 == updateProfile(Store, updates)
      updatedFields == DOMAIN updates
      answer == IF updatedFields # {}
                THEN generateTasksForProfileUpdate(db1, updatedFields)
                ELSE Answer(db1, {}, "")
  IN  /\ Write(answer.db)
      /\ response' = saveResponse(answer)
      /\ UNCHANGED nextUniversityId

\* POST /api/universities
PostUniversity(university) ==
  LET answer == UniversityService_create(Store, nextUniversityId, university)
  IN  /\ Write(answer.db)
      /\ nextUniversityId' = nextUniversityId + 1
      /\ response' = saveResponse(answer)

\* PUT /api/universities/:id
PutUniversity(id, updates) ==
  /\ Write(UniversityService_update(Store, id, updates))
  /\ response' = IF getById(Store, id) = {} THEN Response(404, "Not found", 0) ELSE Ok
  /\ UNCHANGED nextUniversityId

\* DELETE /api/universities/:id
DeleteUniversity(id) ==
  \E foreignKeys \in BOOLEAN :
    /\ Write(UniversityService_delete(Store, id, foreignKeys))
    /\ response' = Ok
    /\ UNCHANGED nextUniversityId

\* the handler swallowing the error, as the other handlers do
generateTasksResponse_Swallowed(answer) ==
  Response(200, "", Cardinality(answer.created))

\* POST /api/universities/:id/generate-tasks:
\* res.json({ success: true, tasksCreated: tasks.length, tasks }), or
\* res.status(500).json({ error: error.message })
generateTasksResponse(answer) ==
  IF answer.error = "" THEN Response(200, "", Cardinality(answer.created))
  ELSE Response(500, answer.error, 0)

GenerateTasks(id) ==
  LET answer == generateTasksForUniversity(Store, id)
  IN  /\ Write(answer.db)
      /\ response' = generateTasksResponse(answer)
      /\ UNCHANGED nextUniversityId

\* POST /api/tasks as sent by addTask
AddTask ==
  /\ Write(TaskService_create(Store, newTask))
  /\ response' = Ok
  /\ UNCHANGED nextUniversityId

\* PUT /api/tasks/:id as sent by toggleTask for a task of the list shown
ToggleTask(id) ==
  \E t \in tasks :
    /\ t.id = id
    /\ Write(TaskService_update(Store, id, toggleTask(t)))
    /\ response' = Ok
    /\ UNCHANGED nextUniversityId

\* DELETE /api/tasks/:id
DeleteTask(id) ==
  /\ Write(TaskService_delete(Store, id))
  /\ response' = Ok
  /\ UNCHANGED nextUniversityId

----------------------------------------------------------------------------
(* The same handlers, one store call at a time. A step is one store call    *)
(* and the local computation that follows it up to the next store call. An  *)
(* INSERT and the read of the inserted row that follows it (getProfileById, *)
(* TaskService.getById) are one step.                                      *)

InFlight(r) == r.pc \notin {"idle", "done"}

\* the handler has answered: its local variables are gone
Finish(r, error) ==
  [IdleRequest EXCEPT !.op = r.op, !.pc = "done", !.overlapped = r.overlapped,
                      !.error = error, !.created = r.created]

\* what the finished handler answers with
answerOf(r) ==
  IF r.op = "POST /api/profile" THEN saveResponse(Answer(Store, r.created, r.error))
  ELSE IF r.op = "POST /api/universities/:id/generate-tasks"
  THEN generateTasksResponse(Answer(Store, r.created, r.error))
  ELSE Ok

\* the handler of slot `self` goes on as r on the store db
Proceed(self, r, db) ==
  /\ requests' = [requests EXCEPT ![self] = r]
  /\ WriteStore(db)
  /\ response' = IF r.pc = "done" THEN answerOf(r) ELSE response
  /\ UNCHANGED nextUniversityId

\* a request arrives
Start(self, op, pc, updates, id) ==
  /\ requests[self].pc = "idle"
  /\ Proceed(self,
             [IdleRequest EXCEPT
                !.op = op, !.pc = pc, !.updates = updates,
                !.universityId = id,
                !.overlapped = \E other \in Slots \ {self} : InFlight(requests[other])],
             Store)

StartGetProfile(self) ==
  Start(self, "GET /api/profile", "getProfile", <<>>, 0)

StartPostProfile(self, updates) ==
  Start(self, "POST /api/profile", "updateProfile: getProfile", updates, 0)

StartGenerateTasks(self, id) ==
  Start(self, "POST /api/universities/:id/generate-tasks",
        "generateTasksForUniversity: getById", <<>>, id)

\* GET /api/profile: let profile = await ProfileService.getProfile()
getProfile_Read(self) ==
  LET r == requests[self]
  IN  /\ r.pc = "getProfile"
      /\ Proceed(self,
                 IF getProfile(Store).id # 0 THEN Finish(r, "")
                 ELSE [r EXCEPT !.pc = "createDefaultProfile"],
                 Store)

\* GET /api/profile: profile = await ProfileService.createDefaultProfile()
getProfile_Create(self) ==
  LET r == requests[self]
  IN  /\ r.pc = "createDefaultProfile"
      /\ Proceed(self, Finish(r, ""), createDefaultProfile(Store))

\* updateProfile: let profile = await this.getProfile()
updateProfile_Read(self) ==
  LET r == requests[self]
      row == getProfile(Store)
  IN  /\ r.pc = "updateProfile: getProfile"
      /\ Proceed(self,
                 IF row.id # 0
                 THEN [r EXCEPT !.pc = "updateProfile: UPDATE", !.pid = row.id]
                 ELSE [r EXCEPT !.pc = "updateProfile: createDefaultProfile"],
                 Store)

\* updateProfile: profile = await this.createDefaultProfile()
updateProfile_Create(self) ==
  LET r == requests[self]
  IN  /\ r.pc = "updateProfile: createDefaultProfile"
      /\ Proceed(self,
                 [r EXCEPT !.pc = "updateProfile: UPDATE", !.pid = nextProfileId],
                 createDefaultProfile(Store))

\* updateProfile: UPDATE profile ... WHERE id = profile.id, then the handler
\* calls the generator when the body has keys
updateProfile_Update(self) ==
  LET r == requests[self]
  IN  /\ r.pc = "updateProfile: UPDATE"
      /\ Proceed(self,
                 IF DOMAIN r.updates = {} THEN Finish(r, "")
                 ELSE [r EXCEPT !.pc = "generateTasksForProfileUpdate: getProfile"],
                 updateProfileRow(Store, r.pid, r.updates))

\* the loop of generateTasksForProfileUpdate up to its next store call: the
\* universities no changed field is relevant to are passed over
RECURSIVE nextRelevant(_, _)
nextRelevant(list, updatedFields) ==
  IF list = <<>> THEN [list |-> <<>>, error |-> ""]
  ELSE LET parsed == parseRequirements(Head(list).requirements)
       IN  IF ~parsed.ok THEN [list |-> <<>>, error |-> "SyntaxError"]
           ELSE IF shouldGenerate(parsed.value, updatedFields)
           THEN [list |-> list, error |-> ""]
           ELSE nextRelevant(Tail(list), updatedFields)

continueLoop(r, list) ==
  LET n == nextRelevant(list, DOMAIN r.updates)
  IN  IF n.list = <<>> THEN Finish(r, n.error)
      ELSE [r EXCEPT !.pc = "generateTasksForProfileUpdate: getByUniversity",
                     !.list = n.list, !.universityId = 0, !.university = {},
                     !.pending = <<>>, !.dueDate = 0]

\* generateTasksForProfileUpdate: const profile = await ProfileService.getProfile()
generateTasksForProfileUpdate_Profile(self) ==
  LET r == requests[self]
  IN  /\ r.pc = "generateTasksForProfileUpdate: getProfile"
      /\ Proceed(self,
                 IF getProfile(Store).id = 0 THEN Finish(r, "")
                 ELSE [r EXCEPT !.pc = "generateTasksForProfileUpdate: getAll"],
                 Store)

\* generateTasksForProfileUpdate: const universities = await UniversityService.getAll()
generateTasksForProfileUpdate_GetAll(self) ==
  LET r == requests[self]
  IN  /\ r.pc = "generateTasksForProfileUpdate: getAll"
      /\ Proceed(self, continueLoop(r, getAll(Store)), Store)

\* generateTasksForProfileUpdate: const existingTasks = await
\* TaskService.getByUniversity(university.id), and the guard on them
generateTasksForProfileUpdate_Guard(self) ==
  LET r == requests[self]
  IN  /\ r.pc = "generateTasksForProfileUpdate: getByUniversity"
      /\ Proceed(self,
                 IF hasSuggestedTasks(Store, Head(r.list).id)
                 THEN continueLoop(r, Tail(r.list))
                 ELSE [r EXCEPT !.pc = "generateTasksForUniversity: getById",
                                !.universityId = Head(r.list).id],
                 Store)

\* the loop going on with the university it has just served
returnFromGenerate_Revisit(r, error) ==
  IF r.op = "POST /api/profile" /\ error = "" THEN continueLoop(r, r.list)
  ELSE Finish(r, error)

\* generateTasksForUniversity returns or throws
returnFromGenerate(r, error) ==
  IF r.op = "POST /api/profile" /\ error = "" THEN continueLoop(r, Tail(r.list))
  ELSE Finish(r, error)

\* generateTasksForUniversity: const university = await UniversityService.getById(universityId)
generateTasksForUniversity_GetById(self) ==
  LET r == requests[self]
      found == getById(Store, r.universityId)
  IN  /\ r.pc = "generateTasksForUniversity: getById"
      /\ Proceed(self,
                 IF found = {} THEN returnFromGenerate(r, "University not found")
                 ELSE [r EXCEPT !.pc = "generateTasksForUniversity: getProfile",
                                !.university = found],
                 Store)

\* generateTasksForUniversity with the profile p in hand: the requirements
\* are parsed, the due date computed and the rules evaluated
evaluateRules(r, p, zone) ==
  LET university == CHOOSE u \in r.university : TRUE
      parsed == parseRequirements(university.requirements)
      fired == firedRules(parsed.value, p)
  IN  IF ~parsed.ok THEN returnFromGenerate(r, "SyntaxError")
      ELSE IF fired = <<>> THEN returnFromGenerate(r, "")
      ELSE [r EXCEPT !.pc = "generateTasksForUniversity: TaskService.create",
                     !.pending = fired,
                     !.dueDate = computeDueDate(university, zone)]

\* generateTasksForUniversity: const profile = await ProfileService.getProfile() || ...
generateTasksForUniversity_Profile(self) ==
  LET r == requests[self]
  IN  /\ r.pc = "generateTasksForUniversity: getProfile"
      /\ Proceed(self,
                 IF getProfile(Store).id # 0 THEN evaluateRules(r, getProfile(Store), tz)
                 ELSE [r EXCEPT !.pc = "generateTasksForUniversity: createDefaultProfile"],
                 Store)

\* generateTasksForUniversity: ... || await ProfileService.createDefaultProfile()
generateTasksForUniversity_Create(self) ==
  LET r == requests[self]
  IN  /\ r.pc = "generateTasksForUniversity: createDefaultProfile"
      /\ Proceed(self, evaluateRules(r, DefaultProfile(nextProfileId), tz),
                 createDefaultProfile(Store))

\* generateTasksForUniversity: const task = await TaskService.create({...})
generateTasksForUniversity_CreateTask(self) ==
  LET r == requests[self]
      university == CHOOSE u \in r.university : TRUE
      db == createSuggestions(Store, university.id, r.dueDate, <<Head(r.pending)>>)
      r1 == [r EXCEPT !.pending = Tail(r.pending), !.created = @ \cup {nextTaskId}]
  IN  /\ r.pc = "generateTasksForUniversity: TaskService.create"
      /\ Proceed(self,
                 IF r1.pending = <<>> THEN returnFromGenerate(r1, "") ELSE r1,
                 db)

\* the awaits of the two generator functions
GeneratorCalls ==
  {"generateTasksForProfileUpdate: getProfile",
   "generateTasksForProfileUpdate: getAll",
   "generateTasksForProfileUpdate: getByUniversity",
   "generateTasksForUniversity: getById",
   "generateTasksForUniversity: getProfile",
   "generateTasksForUniversity: createDefaultProfile",
   "generateTasksForUniversity: TaskService.create"}

\* the tasks the call has created taken back when a store call rejects
StoreCallFails_Rollback(self) ==
  LET r == requests[self]
  IN  /\ r.pc \in GeneratorCalls
      /\ Proceed(self, Finish(r, "SQLITE_ERROR"),
                 [Store EXCEPT !.tasks = {t \in @ : t.id \notin r.created}])

\* the store call a generator function awaits rejects: the await throws,
\* nothing catches it inside the generator, nothing is written
StoreCallFails(self) ==
  LET r == requests[self]
  IN  /\ r.pc \in GeneratorCalls
      /\ Proceed(self, Finish(r, "SQLITE_ERROR"), Store)

\* the store call the handler of slot `self` awaits completes
Step(self) ==
  \/ getProfile_Read(self)
  \/ getProfile_Create(self)
  \/ updateProfile_Read(self)
  \/ updateProfile_Create(self)
  \/ updateProfile_Update(self)
  \/ generateTasksForProfileUpdate_Profile(self)
  \/ generateTasksForProfileUpdate_GetAll(self)
  \/ generateTasksForProfileUpdate_Guard(self)
  \/ generateTasksForUniversity_GetById(self)
  \/ generateTasksForUniversity_Profile(self)
  \/ generateTasksForUniversity_Create(self)
  \/ generateTasksForUniversity_CreateTask(self)

----------------------------------------------------------------------------
(* Spec: requests answered one after the other, on a store that starts     *)
(* with empty tables (the seed rows, which carry no tasks, removed) and a   *)
(* server in either time zone. Universities are created, tasks generated   *)
(* and triaged, the profile read and updated.                              *)

Init ==
  /\ universities = {}
  /\ tasks = {}
  /\ profile = {}
  /\ nextUniversityId = 1
  /\ nextTaskId = 1
  /\ nextProfileId = 1
  /\ tz \in TimeZones
  /\ response = NoResponse
  /\ requests = [slot \in Slots |-> IdleRequest]

\* the bounds: at most MaxUniversities / MaxTasks rows are ever inserted
WithinBounds ==
  /\ nextUniversityId' <= MaxUniversities + 1
  /\ nextTaskId' <= MaxTasks + 1

Next ==
  \/ GetProfile
  \/ \E updates \in ProfileUpdates : PostProfile(updates) /\ WithinBounds
  \/ \E university \in UniversityInputs : PostUniversity(university) /\ WithinBounds
  \/ \E id \in UniversityIds : GenerateTasks(id) /\ WithinBounds
  \/ \E id \in 1 .. MaxTasks : ToggleTask(id)
  \/ \E id \in 1 .. MaxTasks : DeleteTask(id)

Spec == Init /\ [][Next]_vars

----------------------------------------------------------------------------
(* SpecAll: the same, and the requirements column is rewritten and          *)
(* universities are deleted as well.                                       *)

NextAll ==
  \/ Next
  \/ \E id \in UniversityIds, updates \in UniversityUpdates : PutUniversity(id, updates)
  \/ \E id \in UniversityIds : DeleteUniversity(id)

SpecAll == Init /\ [][NextAll]_vars

----------------------------------------------------------------------------
(* SpecEdit: universities are created, their flat requirement fields       *)
(* edited, the profile updated and tasks generated on request.             *)

NextEdit ==
  \/ \E updates \in ProfileUpdates : PostProfile(updates) /\ WithinBounds
  \/ \E university \in UniversityInputs : PostUniversity(university) /\ WithinBounds
  \/ \E id \in UniversityIds, updates \in FlatFieldUpdates : PutUniversity(id, updates)
  \/ \E id \in UniversityIds : GenerateTasks(id) /\ WithinBounds

SpecEdit == Init /\ [][NextEdit]_vars

----------------------------------------------------------------------------
(* SpecTasks: the task list: universities are created with their           *)
(* suggestions, tasks are added by hand, toggled and deleted.              *)

NextTasks ==
  \/ \E university \in UniversityInputs : PostUniversity(university) /\ WithinBounds
  \/ AddTask /\ WithinBounds
  \/ \E id \in 1 .. MaxTasks : ToggleTask(id)
  \/ \E id \in 1 .. MaxTasks : DeleteTask(id)

SpecTasks == Init /\ [][NextTasks]_vars

----------------------------------------------------------------------------
(* SpecSequential: Spec without the generate-tasks request and with tasks  *)
(* added by hand.                                                          *)

NextSequential ==
  \/ GetProfile
  \/ \E updates \in ProfileUpdates : PostProfile(updates) /\ WithinBounds
  \/ \E university \in UniversityInputs : PostUniversity(university) /\ WithinBounds
  \/ AddTask /\ WithinBounds
  \/ \E id \in 1 .. MaxTasks : ToggleTask(id)
  \/ \E id \in 1 .. MaxTasks : DeleteTask(id)

SpecSequential == Init /\ [][NextSequential]_vars

----------------------------------------------------------------------------
(* SpecDelete: universities are created and deleted, their tasks toggled.  *)

NextDelete ==
  \/ \E university \in UniversityInputs : PostUniversity(university) /\ WithinBounds
  \/ \E id \in UniversityIds : DeleteUniversity(id)
  \/ \E id \in 1 .. MaxTasks : ToggleTask(id)

SpecDelete == Init /\ [][NextDelete]_vars

----------------------------------------------------------------------------
(* SpecGen: generateTasksForUniversity as a function of the university and *)
(* the profile. The store holds one university, written by POST and PUT    *)
(* /api/universities, and the profile row or none; one request is made:    *)
(* generate-tasks, for the university or for an id that matches none, or   *)
(* a profile update; a generate-tasks request that created tasks is made   *)
(* a second time.                                                          *)

StoredUniversity(deadlines, requirements) ==
  [id |-> 1, ranking |-> 0,
   deadlineEarly |-> deadlines[1], deadlineRegular |-> deadlines[2],
   deadlineTransfer |-> deadlines[3],
   satMin |-> 0, satAvg |-> 0, ieltsMin |-> 0, ieltsAvg |-> 0, toeflMin |-> 0,
   recLettersRequired |-> 0, essaysRequired |-> 0, interviewRequired |-> 0,
   requirements |-> requirements]

Sats == {NoDesc, Desc(FALSE, 1500, 0, 0), Desc(TRUE, 0, 1500, 0), Desc(TRUE, 1500, 0, 0)}
Englishes == {<<NoDesc, NoDesc>>, <<Desc(TRUE, 70, 0, 0), NoDesc>>,
              <<Desc(FALSE, 70, 0, 0), Desc(TRUE, 100, 0, 0)>>}
Recommendations == {NoDesc, Desc(FALSE, 0, 0, 2), Desc(TRUE, 0, 0, 0), Desc(TRUE, 0, 0, 2)}
Flags == {NoDesc, Desc(TRUE, 0, 0, 0)}

\* every mapping over these descriptors
RequirementMaps ==
  {[sat |-> s, ielts |-> e[1], toefl |-> e[2], transcripts |-> t,
    recommendations |-> r, essays |-> [y EXCEPT !.count = IF y.required THEN 1 ELSE 0],
    interview |-> i] :
     s \in Sats, e \in Englishes, t \in Flags, r \in Recommendations,
     y \in Flags, i \in Flags}

RequirementColumns ==
  {NullText, MalformedText} \cup {JSONstringify(m) : m \in RequirementMaps}

StoredProfiles ==
  {[id |-> 1, satTarget |-> 0, satActual |-> s, ieltsScore |-> e[1],
    toeflScore |-> e[2], transcriptStatus |-> t, recommendationsCount |-> r,
    statementStatus |-> y, feeBudget |-> 0] :
     s \in {0, 1400, 1550}, e \in {<<0, 0>>, <<70, 0>>, <<0, 100>>},
     t \in {"missing", "received"}, r \in {0, 1, 2},
     y \in {"not_started", "drafting"}}

\* <<early, regular, transfer>>
Deadlines ==
  {<<0, 0, 0>>, <<0, 0, 400>>, <<305, 0, 400>>, <<0, 320, 0>>,
   <<335, 320, 0>>, <<305, 370, 0>>}

\* SAT avg 1500 and 2 recommendation letters, as UniversityService.create derives it
ScenarioMap ==
  [EmptyRequirements EXCEPT !.sat = Desc(TRUE, 0, 1500, 0),
                            !.recommendations = Desc(TRUE, 0, 0, 2)]

InitGen ==
  /\ \/ /\ tz = "UTC"
        /\ \E column \in RequirementColumns :
             universities = {StoredUniversity(<<305, 0, 400>>, column)}
        /\ \E p \in StoredProfiles : profile \in {{}, {p}}
     \/ /\ tz \in TimeZones
        /\ \E deadlines \in Deadlines :
             universities = {StoredUniversity(deadlines, JSONstringify(ScenarioMap))}
        /\ profile = {}
  /\ tasks = {}
  /\ nextUniversityId = 2
  /\ nextTaskId = 1
  /\ nextProfileId = IF profile = {} THEN 1 ELSE 2
  /\ response = NoResponse
  /\ requests = [slot \in Slots |-> IdleRequest]

\* the generate-tasks request is repeated once after a batch was created
Repeated ==
  /\ response.tasksCreated > 0
  /\ Cardinality(tasks) = response.tasksCreated

NextGen ==
  \/ \E id \in UniversityIds : response = NoResponse /\ GenerateTasks(id)
  \/ \E id \in UniversityIds : Repeated /\ GenerateTasks(id)
  \/ \E updates \in ProfileUpdates : response = NoResponse /\ PostProfile(updates)

SpecGen == InitGen /\ [][NextGen]_vars

----------------------------------------------------------------------------
(* SpecScore: the readiness report as a function of the profile. The store *)
(* holds no university and the profile row or none; the profile is updated *)
(* one field at a time and the report requested.                           *)

ScoredProfiles ==
  {[id |-> 1, satTarget |-> 0, satActual |-> s, ieltsScore |-> e[1],
    toeflScore |-> e[2], transcriptStatus |-> t, recommendationsCount |-> r,
    statementStatus |-> y, feeBudget |-> f] :
     s \in {0, 1400}, e \in {<<0, 0>>, <<70, 0>>, <<0, 100>>},
     t \in {"missing", "requested", "received", "submitted"}, r \in {0, 1, 2},
     y \in {"not_started", "drafting", "reviewing", "complete"}, f \in {0, 500}}

\* bodies of POST /api/profile that write one field
ScoreUpdates ==
  {[satActual |-> 1400], [ieltsScore |-> 70], [toeflScore |-> 100],
   [transcriptStatus |-> "requested"], [transcriptStatus |-> "received"],
   [recommendationsCount |-> 1], [recommendationsCount |-> 0],
   [statementStatus |-> "complete"], [statementStatus |-> "drafting"],
   [feeBudget |-> 500]}

InitScore ==
  /\ universities = {}
  /\ tasks = {}
  /\ \E p \in ScoredProfiles : profile \in {{}, {p}}
  /\ nextUniversityId = 1
  /\ nextTaskId = 1
  /\ nextProfileId = IF profile = {} THEN 1 ELSE 2
  /\ tz = "UTC"
  /\ response = NoResponse
  /\ requests = [slot \in Slots |-> IdleRequest]

NextScore ==
  \/ GetReadiness
  \/ \E updates \in ScoreUpdates : PostProfile(updates)

SpecScore == InitScore /\ [][NextScore]_vars

----------------------------------------------------------------------------
(* SpecDetail: the detail view as a function of the university's flat      *)
(* fields and the profile. The store holds one university and the profile  *)
(* row or none; the view is opened for the university or for an id that    *)
(* matches none.                                                           *)

\* the stored row with the column gpaMin, which nothing else reads
withGpaMin(row, gpaMin) ==
  [key \in DOMAIN row \cup {"gpaMin"} |-> IF key = "gpaMin" THEN gpaMin ELSE row[key]]

DetailUniversities ==
  {withGpaMin([StoredUniversity(<<305, 0, 0>>, NullText) EXCEPT
                 !.satMin = sat[1], !.satAvg = sat[2], !.ieltsMin = ielts,
                 !.toeflMin = toefl, !.recLettersRequired = recs,
                 !.essaysRequired = essays, !.interviewRequired = interview], gpa) :
     sat \in {<<0, 0>>, <<1500, 0>>, <<0, 1450>>}, ielts \in {0, 70},
     toefl \in {0, 100}, recs \in {0, 2}, essays \in {0, 1},
     interview \in {0, 1}, gpa \in {0, 3}}

DetailProfiles ==
  {[id |-> 1, satTarget |-> 0, satActual |-> s, ieltsScore |-> i,
    toeflScore |-> t, transcriptStatus |-> "missing", recommendationsCount |-> r,
    statementStatus |-> y, feeBudget |-> 0] :
     s \in {0, 1400, 1550}, i \in {0, 65, 70}, t \in {0, 100}, r \in {0, 1, 2},
     y \in {"not_started", "complete"}}

InitDetail ==
  /\ \E u \in DetailUniversities : universities = {u}
  /\ tasks = {}
  /\ \E p \in DetailProfiles : profile \in {{}, {p}}
  /\ nextUniversityId = 2
  /\ nextTaskId = 1
  /\ nextProfileId = IF profile = {} THEN 1 ELSE 2
  /\ tz = "UTC"
  /\ response = NoResponse
  /\ requests = [slot \in Slots |-> IdleRequest]

NextDetail == \E id \in UniversityIds : response = NoResponse /\ OpenDetail(id)

SpecDetail == InitDetail /\ [][NextDetail]_vars

----------------------------------------------------------------------------
(* SpecRace: two requests handled at one time, interleaved between their   *)
(* store calls, on a store that holds one university without tasks (as the *)
(* seed rows are, or after its tasks were deleted) and the profile row or  *)
(* none.                                                                   *)

\* the row of a university with SAT avg 1500 and 2 recommendation letters
RaceUniversities ==
  UniversityService_create(
    [universities |-> {}, tasks |-> {}, profile |-> {}, nextTaskId |-> 1,
     nextProfileId |-> 1, tz |-> "UTC"],
    1, University(2, 305, 0, 400, 0, 1500, 0, 0, 2, 0, 0)).db.universities

InitRace ==
  /\ universities = RaceUniversities
  /\ tasks = {}
  /\ profile \in {{}, {DefaultProfile(1)}}
  /\ nextUniversityId = 2
  /\ nextTaskId = 1
  /\ nextProfileId = IF profile = {} THEN 1 ELSE 2
  /\ tz = "UTC"
  /\ response = NoResponse
  /\ requests = [slot \in Slots |-> IdleRequest]

NextRace ==
  \E self \in Slots :
    \/ StartGetProfile(self)
    \/ \E updates \in ProfileUpdates : StartPostProfile(self, updates)
    \/ \E id \in UniversityIds : StartGenerateTasks(self, id)
    \/ getProfile_Read(self)
    \/ getProfile_Create(self)
    \/ updateProfile_Read(self)
    \/ updateProfile_Create(self)
    \/ updateProfile_Update(self)
    \/ generateTasksForProfileUpdate_Profile(self)
    \/ generateTasksForProfileUpdate_GetAll(self)
    \/ generateTasksForProfileUpdate_Guard(self)
    \/ generateTasksForUniversity_GetById(self)
    \/ generateTasksForUniversity_Profile(self)
    \/ generateTasksForUniversity_Create(self)
    \/ generateTasksForUniversity_CreateTask(self)

SpecRace == InitRace /\ [][NextRace]_vars

----------------------------------------------------------------------------
(* SpecSteps: two requests handled one after the other, store call by      *)
(* store call, each store call of the generator completing or failing, on  *)
(* a store that holds a university requiring all six kinds and a second    *)
(* one, listed before or after it, whose requirements are the SAT avg and  *)
(* two letters or do not parse. SpecLive is SpecSteps where no handler     *)
(* waits for ever for the store call it awaits.                            *)

SixKindsMap ==
  [EmptyRequirements EXCEPT !.sat = Desc(TRUE, 0, 1500, 0),
                            !.ielts = Desc(TRUE, 70, 0, 0),
                            !.transcripts = Desc(TRUE, 0, 0, 0),
                            !.recommendations = Desc(TRUE, 0, 0, 2),
                            !.essays = Desc(TRUE, 0, 0, 1),
                            !.interview = Desc(TRUE, 0, 0, 0)]

InitSteps ==
  /\ \E ranking \in {0, 1}, column \in {JSONstringify(ScenarioMap), MalformedText} :
       universities =
         {[StoredUniversity(<<305, 0, 0>>, JSONstringify(SixKindsMap)) EXCEPT !.ranking = ranking],
          [StoredUniversity(<<305, 0, 0>>, column) EXCEPT !.id = 2]}
  /\ tasks = {}
  /\ profile \in {{}, {DefaultProfile(1)}}
  /\ nextUniversityId = 3
  /\ nextTaskId = 1
  /\ nextProfileId = IF profile = {} THEN 1 ELSE 2
  /\ tz = "UTC"
  /\ response = NoResponse
  /\ requests = [slot \in Slots |-> IdleRequest]

\* no request is being handled
NoneInFlight == \A slot \in Slots : ~InFlight(requests[slot])

NextSteps ==
  \E self \in Slots :
    \/ NoneInFlight /\ StartGetProfile(self)
    \/ \E updates \in ProfileUpdates : NoneInFlight /\ StartPostProfile(self, updates)
    \/ \E id \in UniversityIds : NoneInFlight /\ StartGenerateTasks(self, id)
    \/ Step(self)
    \/ StoreCallFails(self)

SpecSteps == InitSteps /\ [][NextSteps]_vars

SpecLive ==
  SpecSteps /\ \A self \in Slots : WF_vars(Step(self) \/ StoreCallFails(self))

----------------------------------------------------------------------------
(* Properties of the task generator.                                       *)

\* changed-field lists a profile update passes to the generator
ChangedFieldLists ==
  {{"satActual"}, {"recommendationsCount"}, {"statementStatus"},
   {"satActual", "recommendationsCount"}}

\* the requirement kind a task title stands for; none for a task added by hand
requirementKind(title) ==
  CASE title \in {"Take SAT", "Retake SAT"} -> "sat"
    [] title = "Take English Proficiency Test" -> "english"
    [] title = "Request transcripts" -> "transcripts"
    [] title = "Request recommendation letters" -> "recommendations"
    [] title = "Write essays" -> "essays"
    [] title = "Prepare for interview" -> "interview"
    [] OTHER -> ""

\* no university has two suggested tasks of one requirement kind
NoDuplicateSuggestion(rows) ==
  \A t1, t2 \in rows :
    (/\ t1.status = "suggested" /\ t2.status = "suggested"
     /\ t1.universityId # 0 /\ t1.universityId = t2.universityId
     /\ requirementKind(t1.title) = requirementKind(t2.title)) => t1 = t2

\* C1: when generateTasksForProfileUpdate is called twice in succession with
\* the same changed-field list, every university that has a suggested task
\* after the first call has the same set of tasks before and after the
\* second call.
C1_SecondCallCreatesNothing ==
  \A fields \in ChangedFieldLists :
    LET first == generateTasksForProfileUpdate(Store, fields)
        second == generateTasksForProfileUpdate(first.db, fields)
    IN  \A u \in universities :
          (\E t \in first.db.tasks : t.universityId = u.id /\ t.status = "suggested") =>
            getByUniversity(second.db, u.id) = getByUniversity(first.db, u.id)

\* a store on which the first call creates a batch and the second nothing
C1_Witness ==
  \E fields \in ChangedFieldLists :
    LET first == generateTasksForProfileUpdate(Store, fields)
        second == generateTasksForProfileUpdate(first.db, fields)
    IN  /\ first.created # {}
        /\ second.created = {}
        /\ \E t \in first.db.tasks : t.id \in first.created /\ t.status = "suggested"

\* C2 as stated: in every reachable state, direct generate-tasks requests
\* included, no university has two suggested tasks of one requirement kind.
C2_NeverDuplicate == NoDuplicateSuggestion(tasks)

\* C2 as amended: creating a university, updating the profile and toggling
\* or deleting a task never give a university two suggested tasks of one
\* requirement kind; only a direct generate-tasks request does.
C2_NoDuplicateWithoutDirectCall ==
  NoDuplicateSuggestion(tasks) =>
    /\ \A updates \in ProfileUpdates :
         DOMAIN updates # {} =>
           NoDuplicateSuggestion(
             generateTasksForProfileUpdate(updateProfile(Store, updates),
                                           DOMAIN updates).db.tasks)
    /\ \A university \in UniversityInputs :
         NoDuplicateSuggestion(
           UniversityService_create(Store, nextUniversityId, university).db.tasks)
    /\ \A t \in tasks :
         /\ NoDuplicateSuggestion(TaskService_update(Store, t.id, toggleTask(t)).tasks)
         /\ NoDuplicateSuggestion(TaskService_delete(Store, t.id).tasks)

\* a profile update regenerates for a university whose earlier suggestions
\* were triaged, next to a university whose suggestions are outstanding
C2_Witness ==
  /\ NoDuplicateSuggestion(tasks)
  /\ \E t \in tasks : t.status = "suggested"
  /\ \E t \in tasks, updates \in ProfileUpdates :
       /\ t.status # "suggested"
       /\ DOMAIN updates # {}
       /\ \E n \in generateTasksForProfileUpdate(updateProfile(Store, updates),
                                                 DOMAIN updates).db.tasks \ tasks :
            n.universityId = t.universityId

\* C3: generateTasksForUniversity and generateTasksForProfileUpdate only add
\* task rows: every task that existed before the call exists afterwards
\* with every field unchanged.
C3_GeneratorOnlyAdds ==
  /\ \A id \in UniversityIds :
       TaskService_getAll(Store) \subseteq
         TaskService_getAll(generateTasksForUniversity(Store, id).db)
  /\ \A fields \in ChangedFieldLists :
       TaskService_getAll(Store) \subseteq
         TaskService_getAll(generateTasksForProfileUpdate(Store, fields).db)

\* a triaged task of a university for which the generator creates a task of
\* the same title
C3_Witness ==
  \E t \in tasks :
    /\ t.status = "done"
    /\ \E n \in generateTasksForUniversity(Store, t.universityId).db.tasks \ tasks :
         n.title = t.title

\* no requirement kind of the mapping is marked required
NoneRequired(requirements) ==
  \A kind \in DOMAIN requirements : ~requirements[kind].required

\* C4: for a university whose requirements mapping (absent, empty or not)
\* marks no kind required, and any profile, generateTasksForUniversity
\* creates no task and returns an empty list.
C4_NothingRequiredNothingGenerated ==
  \A u \in universities :
    LET parsed == parseRequirements(u.requirements)
        answer == generateTasksForUniversity(Store, u.id)
    IN  (parsed.ok /\ NoneRequired(parsed.value)) =>
          /\ answer.error = ""
          /\ answer.created = {}
          /\ TaskService_getAll(answer.db) = tasks

\* the request was answered for a university that lists a SAT score and a
\* number of letters without requiring them, the profile having neither
C4_Witness ==
  /\ response = Response(200, "", 0)
  /\ tasks = {}
  /\ \E u \in universities, p \in profile :
       LET parsed == parseRequirements(u.requirements)
       IN  /\ parsed.ok /\ NoneRequired(parsed.value)
           /\ parsed.value.sat.present /\ parsed.value.recommendations.count = 2
           /\ p.satActual = 0 /\ p.recommendationsCount = 0

RequirementKinds ==
  {"sat", "english", "transcripts", "recommendations", "essays", "interview"}

\* the rules of the claim, C being the number of letters required
RuleFires(kind, requirements, p, C) ==
  CASE kind = "sat" ->
         requirements.sat.required
           /\ (p.satActual = 0 \/ p.satActual < requirements.sat.minScore)
    [] kind = "english" ->
         (requirements.ielts.required \/ requirements.toefl.required)
           /\ p.ieltsScore = 0 /\ p.toeflScore = 0
    [] kind = "transcripts" ->
         requirements.transcripts.required /\ p.transcriptStatus = "missing"
    [] kind = "recommendations" ->
         requirements.recommendations.required /\ p.recommendationsCount < C
    [] kind = "essays" ->
         requirements.essays.required /\ p.statementStatus = "not_started"
    [] kind = "interview" -> requirements.interview.required

RulePriority(kind) ==
  IF kind \in {"essays", "interview"} THEN "medium" ELSE "high"

\* `rows` holds exactly one suggested task per rule that fires, of the
\* rule's priority, and nothing else
OneTaskPerRule(rows, requirements, p, C) ==
  LET firing == {kind \in RequirementKinds : RuleFires(kind, requirements, p, C)}
  IN  /\ Cardinality(rows) = Cardinality(firing)
      /\ {requirementKind(t.title) : t \in rows} = firing
      /\ \A t \in rows :
           t.status = "suggested" /\ t.priority = RulePriority(requirementKind(t.title))

\* SAT avg 1500 and 2 letters required, satActual unset and 1 letter:
\* exactly the SAT and the recommendations task
ScenarioYieldsTwoTasks(rows, requirements, p) ==
  (requirements = ScenarioMap /\ p.satActual = 0 /\ p.recommendationsCount = 1) =>
    /\ Cardinality(rows) = 2
    /\ {t.title : t \in rows} = {"Take SAT", "Request recommendation letters"}

\* C5 as stated: generateTasksForUniversity creates exactly one task per
\* rule that fires and no other, the recommendations rule comparing
\* recommendationsCount with the count C of the mapping.
C5_OneTaskPerFiringRule ==
  \A u \in universities :
    LET parsed == parseRequirements(u.requirements)
        answer == generateTasksForUniversity(Store, u.id)
        rows == TaskService_getAll(answer.db) \ tasks
        p == getProfile(answer.db)
    IN  parsed.ok =>
          /\ OneTaskPerRule(rows, parsed.value, p, parsed.value.recommendations.count)
          /\ ScenarioYieldsTwoTasks(rows, parsed.value, p)

\* C5 as amended: the same, C being 1 when the mapping gives no count for
\* the letters (or 0).
C5_OneTaskPerFiringRuleDefaultCount ==
  \A u \in universities :
    LET parsed == parseRequirements(u.requirements)
        answer == generateTasksForUniversity(Store, u.id)
        rows == TaskService_getAll(answer.db) \ tasks
        p == getProfile(answer.db)
        C == IF parsed.value.recommendations.count = 0 THEN 1
             ELSE parsed.value.recommendations.count
    IN  parsed.ok =>
          /\ answer.error = ""
          /\ {t.id : t \in rows} = answer.created
          /\ OneTaskPerRule(rows, parsed.value, p, C)
          /\ ScenarioYieldsTwoTasks(rows, parsed.value, p)

\* letters required without a count, a profile without letters: the
\* recommendations task was created
C5_Witness ==
  /\ response.status = 200
  /\ \E u \in universities, p \in profile, t \in tasks :
       /\ parseRequirements(u.requirements).value.recommendations = Desc(TRUE, 0, 0, 0)
       /\ p.recommendationsCount = 0
       /\ t.universityId = u.id
       /\ t.title = "Request recommendation letters"

\* C6: a generateTasksForProfileUpdate call with a field relevant to
\* university U creates nothing for U while U has a suggested task, and
\* creates for U exactly the tasks whose rules fire under the current
\* profile once U has none.
C6_RegeneratesAfterTriage ==
  profile # {} =>
    \A u \in universities, fields \in ChangedFieldLists :
      LET parsed == parseRequirements(u.requirements)
          answer == generateTasksForProfileUpdate(Store, fields)
          rows == {t \in TaskService_getAll(answer.db) \ tasks : t.universityId = u.id}
          C == IF parsed.value.recommendations.count = 0 THEN 1
               ELSE parsed.value.recommendations.count
      IN  (parsed.ok /\ shouldGenerate(parsed.value, fields)) =>
            IF \E t \in tasks : t.universityId = u.id /\ t.status = "suggested"
            THEN rows = {}
            ELSE OneTaskPerRule(rows, parsed.value, getProfile(Store), C)

\* C7: the profileItemType of a generated task names the profile field its
\* rule checked (satActual for both SAT tasks, none for the interview), and
\* is one of the field names generateTasksForProfileUpdate is called with.
C7_ProfileItemTypeNamesField ==
  \A t \in tasks :
    LET kind == requirementKind(t.title)
    IN  /\ kind = "sat" => t.profileItemType = "satActual"
        /\ kind = "english" => t.profileItemType \in {"ieltsScore", "toeflScore"}
        /\ kind = "transcripts" => t.profileItemType = "transcriptStatus"
        /\ kind = "recommendations" => t.profileItemType = "recommendationsCount"
        /\ kind = "essays" => t.profileItemType = "statementStatus"
        /\ kind = "interview" => t.profileItemType = ""
        /\ t.profileItemType # "" => t.profileItemType \in ProfileFields

\* the earliest of the early and the regular deadline that are present
earliestDeadline(u) ==
  IF u.deadlineEarly = 0 THEN u.deadlineRegular
  ELSE IF u.deadlineRegular = 0 THEN u.deadlineEarly
  ELSE IF u.deadlineRegular < u.deadlineEarly THEN u.deadlineRegular
  ELSE u.deadlineEarly

\* C8: the tasks of one generateTasksForUniversity call carry the same
\* dueDate: the earliest present of the early and regular deadlines minus 30
\* days, or none when the university has neither; the transfer deadline is
\* not used.
C8_DueDateThirtyDaysBeforeEarliest ==
  \A u \in universities : \A t \in tasks :
    t.universityId = u.id =>
      t.dueDate = IF u.deadlineEarly = 0 /\ u.deadlineRegular = 0 THEN 0
                  ELSE earliestDeadline(u) - 30

\* C9: UniversityService.delete deletes no task: every task that existed
\* before is returned by the task list afterwards, every field other than
\* universityId unchanged.
C9_DeleteKeepsTasks ==
  \A id \in UniversityIds, foreignKeys \in BOOLEAN :
    LET after == TaskService_getAll(UniversityService_delete(Store, id, foreignKeys))
    IN  /\ Cardinality(after) = Cardinality(tasks)
        /\ \A t \in tasks :
             \E a \in after : [a EXCEPT !.universityId = t.universityId] = t

\* a university was deleted and a task that referred to it is still listed
C9_Witness ==
  /\ response = Ok
  /\ \E t \in TaskService_getAll(Store) : getById(Store, t.universityId) = {}

\* C10: generateTasksForUniversity on an id that matches no university
\* throws 'University not found', the generate-tasks handler answers with an
\* error response, and the store is left as it was: no task and no profile
\* row is created.
C10_MissingUniversityFails ==
  \A id \in UniversityIds :
    getById(Store, id) = {} =>
      LET answer == generateTasksForUniversity(Store, id)
      IN  /\ answer.error = "University not found"
          /\ answer.created = {}
          /\ answer.db = Store
          /\ generateTasksResponse(answer) = Response(500, "University not found", 0)

\* the request was made on a store without universities and without profile
C10_Witness ==
  /\ response = Response(500, "University not found", 0)
  /\ universities = {}
  /\ profile = {}
  /\ tasks = {}

C12_MalformedRequirementsRecovered ==
  \A u \in universities :
    ~parseRequirements(u.requirements).ok =>
      /\ generateTasksForUniversity(Store, u.id).error = ""
      /\ generateTasksForUniversity(Store, u.id).created = {}
      /\ \A fields \in ChangedFieldLists :
           LET others == [Store EXCEPT !.universities = @ \ {u}]
               with == generateTasksForProfileUpdate(Store, fields)
               without == generateTasksForProfileUpdate(others, fields)
           IN  /\ with.error = ""
               /\ with.db.tasks = without.db.tasks

\* the suggested tasks of a kind a university has among `rows`
suggestedOfKind(rows, universityId, kind) ==
  {t \in rows : /\ t.universityId = universityId
                /\ t.status = "suggested"
                /\ requirementKind(t.title) = kind}

\* C17: generateTasksForUniversity does not look at existing tasks: called
\* twice in a row for a university, with the profile unchanged, it creates
\* as many tasks the second time as the first, so that every rule that
\* fires has two more suggested tasks for the university than before.
C17_SecondDirectCallDuplicates ==
  \A u \in universities :
    LET first == generateTasksForUniversity(Store, u.id)
        second == generateTasksForUniversity(first.db, u.id)
    IN  first.error = "" =>
          /\ second.error = ""
          /\ Cardinality(second.created) = Cardinality(first.created)
          /\ \A t \in first.db.tasks \ tasks :
               Cardinality(suggestedOfKind(second.db.tasks, u.id, requirementKind(t.title)))
                 = Cardinality(suggestedOfKind(tasks, u.id, requirementKind(t.title))) + 2

\* the second of two generate-tasks requests was answered: two tasks
\* created again, two suggested tasks of each of the two kinds
C17_Witness ==
  /\ response.tasksCreated = 2
  /\ Cardinality(tasks) = 4
  /\ \A t \in tasks :
       Cardinality(suggestedOfKind(tasks, t.universityId, requirementKind(t.title))) = 2

\* the titles of the tasks a generator answer has added for a university
titlesCreatedFor(answer, db, universityId) ==
  {t.title : t \in {n \in answer.db.tasks \ db.tasks : n.universityId = universityId}}

\* C18: while university U has a suggested task, of whatever kind,
\* generateTasksForProfileUpdate creates no task for U whatever fields
\* changed, also when a rule of another kind fires; the suggested tasks of
\* other universities do not change what is created for a university
\* without suggested task.
C18_GuardIsPerUniversity ==
  \A u \in universities, fields \in ChangedFieldLists :
    LET answer == generateTasksForProfileUpdate(Store, fields)
        alone == [Store EXCEPT !.tasks = {t \in @ : t.universityId = u.id}]
    IN  IF \E t \in tasks : t.universityId = u.id /\ t.status = "suggested"
        THEN titlesCreatedFor(answer, Store, u.id) = {}
        ELSE titlesCreatedFor(answer, Store, u.id) =
               titlesCreatedFor(generateTasksForProfileUpdate(alone, fields), alone, u.id)

\* U has a suggested task and a rule of another kind fires for it, U2 has
\* none: an update of satActual creates nothing for U and a task for U2
C18_Witness ==
  \E u \in universities, u2 \in universities, p \in profile :
    LET answer == generateTasksForProfileUpdate(Store, {"satActual"})
        requirements == parseRequirements(u.requirements).value
    IN  /\ u # u2
        /\ \E t \in tasks : t.universityId = u.id /\ t.status = "suggested"
        /\ requirements.sat.required
        /\ \E kind \in RequirementKinds :
             /\ RuleFires(kind, requirements, p, requirements.recommendations.count)
             /\ suggestedOfKind(tasks, u.id, kind) = {}
        /\ titlesCreatedFor(answer, Store, u.id) = {}
        /\ ~\E t \in tasks : t.universityId = u2.id /\ t.status = "suggested"
        /\ titlesCreatedFor(answer, Store, u2.id) # {}

\* changed-field lists with the fields that belong to no requirement kind
MappedFieldLists ==
  {{"satTarget"}, {"feeBudget"}, {"satTarget", "feeBudget"}, {"satActual"},
   {"ieltsScore"}, {"toeflScore"}, {"transcriptStatus"}, {"recommendationsCount"},
   {"statementStatus"}, {"satTarget", "statementStatus"}}

\* some changed field maps to a required kind of the requirements
MapsToRequiredKind(fields, requirements) ==
  \/ "satActual" \in fields /\ requirements.sat.required
  \/ fields \cap {"ieltsScore", "toeflScore"} # {}
       /\ (requirements.ielts.required \/ requirements.toefl.required)
  \/ "transcriptStatus" \in fields /\ requirements.transcripts.required
  \/ "recommendationsCount" \in fields /\ requirements.recommendations.required
  \/ "statementStatus" \in fields /\ requirements.essays.required

\* C19: generateTasksForProfileUpdate creates tasks for a university only if
\* a changed field maps to one of its required kinds (satActual -> sat,
\* ieltsScore / toeflScore -> ielts or toefl, transcriptStatus ->
\* transcripts, recommendationsCount -> recommendations, statementStatus ->
\* essays); a call with only satTarget and / or feeBudget, or with fields
\* that match no required kind of any university, creates no task.
C19_OnlyMappedFieldsGenerate ==
  \A fields \in MappedFieldLists :
    LET answer == generateTasksForProfileUpdate(Store, fields)
    IN  /\ \A u \in universities :
             titlesCreatedFor(answer, Store, u.id) # {} =>
               MapsToRequiredKind(fields, parseRequirements(u.requirements).value)
        /\ fields \subseteq {"satTarget", "feeBudget"} => answer.created = {}
        /\ (\A u \in universities :
              ~MapsToRequiredKind(fields, parseRequirements(u.requirements).value)) =>
             answer.db.tasks = tasks

\* a profile update was saved and created no task, its fields mapping to no
\* required kind, where a change of statementStatus would have created one
C19_Witness ==
  /\ response = Ok
  /\ profile # {}
  /\ tasks = {}
  /\ generateTasksForProfileUpdate(Store, {"satActual"}).created = {}
  /\ generateTasksForProfileUpdate(Store, {"recommendationsCount"}).created = {}
  /\ generateTasksForProfileUpdate(Store, {"statementStatus"}).created # {}

\* C20: with no profile row, generateTasksForProfileUpdate does nothing,
\* whatever the changed fields: it returns an empty list, creates no task
\* and creates no profile row.
C20_NoProfileNoOp ==
  profile = {} =>
    \A fields \in MappedFieldLists :
      generateTasksForProfileUpdate(Store, fields) = Answer(Store, {}, "")

\* no profile row, and a university for which a change of satActual would
\* create tasks if the default row existed
C20_Witness ==
  /\ profile = {}
  /\ tasks = {}
  /\ generateTasksForProfileUpdate(createDefaultProfile(Store), {"satActual"}).created # {}

----------------------------------------------------------------------------
(* Properties of interleaved requests.                                     *)

\* the requests made so far are profile updates handled one after the other
ProfileUpdatesInSequence ==
  \A slot \in Slots :
    /\ requests[slot].op \in {"", "POST /api/profile"}
    /\ ~requests[slot].overlapped

\* C15: the guard and the creation of generateTasksForProfileUpdate are not
\* atomic: two profile updates handled at one time can both find university
\* U without suggested task and both create a batch for it; two profile
\* updates handled one after the other never leave U with two suggested
\* tasks of one kind.
C15_DuplicateOnlyWhenInterleaved ==
  ProfileUpdatesInSequence => NoDuplicateSuggestion(tasks)

\* both profile updates have finished, each has created a batch for the
\* university, and two suggested tasks of one kind are there
C15_Witness ==
  /\ \A slot \in Slots :
       /\ requests[slot].op = "POST /api/profile"
       /\ requests[slot].pc = "done"
       /\ requests[slot].created # {}
  /\ \E slot \in Slots : requests[slot].overlapped
  /\ ~NoDuplicateSuggestion(tasks)

\* C16: at most one profile row exists in every reachable state, also when
\* the 'read, create defaults if absent' sequences of GET /api/profile,
\* updateProfile and generateTasksForUniversity interleave; the row is
\* created with transcriptStatus missing, recommendationsCount 0 and
\* statementStatus not_started.
C16_SingleProfileRow ==
  /\ Cardinality(profile) <= 1
  /\ \A slot \in Slots :
       (requests[slot].op = "GET /api/profile" /\ requests[slot].pc = "done"
          /\ \A other \in Slots : requests[other].updates = <<>>) =>
         \A row \in profile :
           /\ row.transcriptStatus = "missing"
           /\ row.recommendationsCount = 0
           /\ row.statementStatus = "not_started"

----------------------------------------------------------------------------
(* Properties of the readiness scorer.                                     *)

\* the dimensions a profile satisfies
SatisfiedDimensions(p) ==
  {d \in {"sat", "english", "transcripts", "recommendations", "statement", "fee"} :
     CASE d = "sat" -> p.satActual # 0
       [] d = "english" -> p.ieltsScore # 0 \/ p.toeflScore # 0
       [] d = "transcripts" -> p.transcriptStatus \in {"received", "submitted"}
       [] d = "recommendations" -> p.recommendationsCount > 0
       [] d = "statement" -> p.statementStatus = "complete"
       [] d = "fee" -> p.feeBudget # 0}

\* round(100 * completed / 6) for completed = 1 .. 6
RoundedSixths == <<17, 33, 50, 67, 83, 100>>

\* C13: completed is the number of the six dimensions the profile
\* satisfies and score = round(100 * completed / 6), an integer in 0 .. 100;
\* a profile change after which one more dimension is satisfied and none
\* less does not decrease score.
C13_ScoreIsRoundedShare ==
  LET report == getReadinessScore(Store)
      p == getProfile(Store)
  IN  /\ report.completed = Cardinality(SatisfiedDimensions(p))
      /\ report.score = IF report.completed = 0 THEN 0
                        ELSE RoundedSixths[report.completed]
      /\ report.score \in 0 .. 100
      /\ \A updates \in ScoreUpdates :
           LET after == updateProfile(Store, updates)
               q == getProfile(after)
           IN  (/\ SatisfiedDimensions(p) \subseteq SatisfiedDimensions(q)
                /\ SatisfiedDimensions(p) # SatisfiedDimensions(q)) =>
                 getReadinessScore(after).score >= report.score

\* the report of a profile with the SAT score alone was answered: 17
C13_Witness ==
  /\ response.readiness.completed = 1
  /\ response.readiness.score = 17
  /\ \E p \in profile : SatisfiedDimensions(p) = {"sat"}

\* C14: the report always has total = 6 and the six items in the order SAT,
\* English test, Transcripts, Recommendations, Statement, Fee; with no
\* profile row the six items are all incomplete and score is 0.
C14_SixItemsInFixedOrder ==
  LET report == getReadinessScore(Store)
  IN  /\ report.total = 6
      /\ [i \in 1 .. Len(report.items) |-> report.items[i].name] =
           <<"SAT Score", "IELTS/TOEFL", "Transcripts", "Recommendations",
             "Personal Statement", "Application Fee">>
      /\ profile = {} =>
           /\ report.score = 0
           /\ \A i \in 1 .. Len(report.items) : ~report.items[i].complete

----------------------------------------------------------------------------
(* Properties of the task states.                                          *)

\* the rows a generator answer has added to the store `db`
rowsCreated(answer, db) == answer.db.tasks \ db.tasks

\* the rows of `db` keep their status and completedAt in the answer's store
StatusKept(answer, db) ==
  \A t \in db.tasks :
    \E n \in answer.db.tasks :
      n.id = t.id /\ n.status = t.status /\ n.completedAt = t.completedAt

\* every row a generator call adds is suggested and not completed, and the
\* call leaves the status of the rows there were
OnlySuggests(answer, db) ==
  /\ \A n \in rowsCreated(answer, db) : n.status = "suggested" /\ n.completedAt = 0
  /\ StatusKept(answer, db)

\* a step in which a task row gets a status other than suggested is the
\* task update sent for that task
StatusMovedByTaskUpdate ==
  \A n \in tasks' :
    (n.status # "suggested" /\ n \notin tasks) =>
      \E t \in tasks : /\ t.id = n.id
                       /\ tasks' = TaskService_update(Store, t.id, toggleTask(t)).tasks

\* C21: every task generateTasksForUniversity or
\* generateTasksForProfileUpdate creates has status suggested and no
\* completedAt, no generator call changes the status of a task, and a task
\* gets the status todo or done only in a task update sent by the user.
C21_GeneratorOnlySuggests ==
  /\ [](/\ \A id \in UniversityIds :
             OnlySuggests(generateTasksForUniversity(Store, id), Store)
        /\ \A fields \in ChangedFieldLists :
             OnlySuggests(generateTasksForProfileUpdate(Store, fields), Store))
  /\ [][StatusMovedByTaskUpdate]_vars

\* a task accepted by the user next to one a later generator call created
C21_Witness ==
  \E t \in tasks, n \in tasks :
    /\ t.status = "todo"
    /\ n.status = "suggested" /\ n.completedAt = 0
    /\ n.id > t.id
    /\ response.tasksCreated > 0

\* the row of task `t` after the PUT toggleTask sends for it
toggled(t) ==
  CHOOSE n \in TaskService_update(Store, t.id, toggleTask(t)).tasks : n.id = t.id

\* C24: a toggle writes status and completedAt together: at any time
\* completedAt is set exactly when the status is done; the toggle of a done
\* task gives todo without completedAt, the toggle of any other task, a
\* suggested one included, gives done with completedAt.
C24_CompletedAtIffDone ==
  \A t \in tasks :
    /\ (t.completedAt # 0) = (t.status = "done")
    /\ t.status = "done" => toggled(t).status = "todo" /\ toggled(t).completedAt = 0
    /\ t.status # "done" => toggled(t).status = "done" /\ toggled(t).completedAt # 0

\* a suggested task toggled to done, one toggled back to todo and the one
\* added by hand toggled to done
C24_Witness ==
  \E t \in tasks, n \in tasks, m \in tasks :
    /\ t.profileItemType # "" /\ t.status = "done" /\ t.completedAt # 0
    /\ n.profileItemType # "" /\ n.status = "todo" /\ n.completedAt = 0
    /\ m.title = "user task" /\ m.status = "done" /\ m.completedAt # 0

\* the kinds of the tasks with the ids `created` that belong to university u
kindsCreatedFor(rows, created, u) ==
  {requirementKind(t.title) : t \in {n \in rows : n.id \in created /\ n.universityId = u.id}}

\* the kinds whose rule fires for university u and profile row p
firingKinds(u, p) ==
  LET requirements == parseRequirements(u.requirements).value
  IN  {kind \in RequirementKinds :
         RuleFires(kind, requirements, p, requiredCount(requirements))}

\* C26: requests being handled one after the other, with university
\* creation, profile updates, toggles and deletions of tasks and tasks
\* added by hand (as todo), and no direct generate-tasks request, every
\* university has at most one suggested task of each rule group at any time.
C26_OneSuggestionPerRuleGroup ==
  \A id \in UniversityIds, kind \in RequirementKinds :
    Cardinality(suggestedOfKind(tasks, id, kind)) <= 1

\* a profile update has created a suggestion of a kind for a university
\* that has a triaged task of that kind
C26_Witness ==
  \E t \in tasks, n \in tasks :
    /\ t.status # "suggested" /\ n.status = "suggested"
    /\ t.universityId = n.universityId /\ t.title = n.title
    /\ n.id > t.id
    /\ response = Ok

\* the tasks of a kind a university has that are not done
openOfKind(rows, universityId, kind) ==
  {t \in rows : /\ t.universityId = universityId
                /\ t.status # "done"
                /\ requirementKind(t.title) = kind}

\* C27 as stated: every university has at most one task that is not done
\* of each rule group at any time: a task accepted into todo keeps a later
\* relevant profile update from creating a second open task of its kind.
C27_OneOpenTaskPerRuleGroup ==
  \A id \in UniversityIds, kind \in RequirementKinds :
    Cardinality(openOfKind(tasks, id, kind)) <= 1

\* C27 as amended: only suggested tasks hold generation back. A profile
\* update creates tasks for a university exactly when a changed field maps
\* to one of its required kinds, it has no suggested task and a rule
\* fires; the tasks are those of the firing rules, whether or not a task of
\* the kind accepted into todo is still open.
C27_OnlySuggestionsHoldBack ==
  \A u \in universities, p \in profile, fields \in ChangedFieldLists :
    LET answer == generateTasksForProfileUpdate(Store, fields)
        created == kindsCreatedFor(answer.db.tasks, answer.created, u)
    IN  IF /\ MapsToRequiredKind(fields, parseRequirements(u.requirements).value)
           /\ ~\E t \in tasks : t.universityId = u.id /\ t.status = "suggested"
        THEN created = firingKinds(u, p)
        ELSE created = {}

\* a university with an interview task accepted into todo and a second,
\* suggested interview task a later profile update has created
C27_Witness ==
  \E t \in tasks, n \in tasks :
    /\ t.status = "todo" /\ n.status = "suggested"
    /\ t.universityId = n.universityId /\ t.universityId # 0
    /\ requirementKind(t.title) = requirementKind(n.title)
    /\ n.id > t.id
    /\ response = Ok

\* no row of `rows` is a transcripts task
NoTranscriptsTask(rows) ==
  \A t \in rows :
    requirementKind(t.title) # "transcripts" /\ t.profileItemType # "transcriptStatus"

\* C29: the requirements UniversityService.create and the population
\* migration derive never hold the kind transcripts: for universities with
\* derived requirements no generator call creates a transcripts task,
\* whatever the profile's transcriptStatus, and a profile update that
\* changes transcriptStatus alone creates no task.
C29_NoTranscriptsForDerived ==
  /\ NoTranscriptsTask(tasks)
  /\ \A university \in DerivationInputs :
       LET answer == UniversityService_create(Store, nextUniversityId, university)
           migrated == populateUniversityRequirements(answer.db)
       IN  /\ \A u \in answer.db.universities \cup migrated.universities :
                ~parseRequirements(u.requirements).value.transcripts.present
           /\ NoTranscriptsTask(answer.db.tasks)
           /\ \A id \in UniversityIds :
                NoTranscriptsTask(generateTasksForUniversity(migrated, id).db.tasks)
           /\ generateTasksForProfileUpdate(answer.db, {"transcriptStatus"}).db.tasks
                = answer.db.tasks
           /\ generateTasksForProfileUpdate(migrated, {"transcriptStatus"}).db.tasks
                = migrated.tasks

\* a university was created while the profile's transcripts are missing:
\* it has suggestions, none of them for transcripts
C29_Witness ==
  \E u \in universities, p \in profile :
    /\ p.transcriptStatus = "missing"
    /\ response = Ok
    /\ \E t \in tasks : t.universityId = u.id /\ t.status = "suggested"
    /\ NoTranscriptsTask(tasks)
    /\ ~parseRequirements(u.requirements).value.transcripts.present

\* every English-test task among `rows` is about toeflScore
EnglishTasksNameToefl(rows) ==
  \A t \in rows :
    requirementKind(t.title) = "english" => t.profileItemType = "toeflScore"

\* C30: every English-test task the generator creates has profileItemType
\* toeflScore, never ieltsScore, also for a university that requires IELTS
\* alone: the rule fires only for a profile with neither ieltsScore nor
\* toeflScore.
C30_EnglishTaskNamesToefl ==
  /\ EnglishTasksNameToefl(tasks)
  /\ \A id \in UniversityIds :
       LET answer == generateTasksForUniversity(Store, id)
       IN  /\ EnglishTasksNameToefl(answer.db.tasks)
           /\ \A t \in rowsCreated(answer, Store), p \in answer.db.profile :
                requirementKind(t.title) = "english" =>
                  p.ieltsScore = 0 /\ p.toeflScore = 0
  /\ \A fields \in MappedFieldLists :
       EnglishTasksNameToefl(generateTasksForProfileUpdate(Store, fields).db.tasks)

\* the English-test task created for a university that requires IELTS and
\* not TOEFL
C30_Witness ==
  \E u \in universities, t \in tasks :
    /\ parseRequirements(u.requirements).value.ielts.required
    /\ ~parseRequirements(u.requirements).value.toefl.required
    /\ t.universityId = u.id
    /\ t.title = "Take English Proficiency Test"
    /\ t.profileItemType = "toeflScore"
    /\ response.tasksCreated > 0

----------------------------------------------------------------------------
(* Properties of the requirement matcher.                                  *)

\* the numbers the matcher is given: a requirement value, a user value, a count
MatcherValues == {Undefined} \cup (0 .. 3)

\* the statuses the claim gives for a call in one of the two shapes the view
\* uses: a score (no count) or a count (no requirement value)
MatchedAsClaimed(uniValue, userValue, count) ==
  LET status == getRequirementStatus("", uniValue, userValue, count)
      userCount == IF userValue = Undefined THEN 0 ELSE userValue
  IN  /\ status \in {"complete", "partial", "missing", "not-required"}
      /\ (uniValue \in {Undefined, 0} /\ count \in {Undefined, 0}) => status = "not-required"
      /\ (uniValue = Undefined /\ count > 0) =>
           /\ userCount = 0 => status = "missing"
           /\ (0 < userCount /\ userCount < count) => status = "partial"
           /\ userCount >= count => status = "complete"
      /\ (count = Undefined /\ uniValue > 0) =>
           /\ userValue \in {Undefined, 0} => status = "missing"
           /\ (userValue > 0 /\ userValue >= uniValue) => status = "complete"
           /\ (userValue > 0 /\ userValue < uniValue) => status = "partial"

\* C22: getRequirementStatus always returns one of complete, partial,
\* missing, not-required: not-required without requirement value and
\* without truthy count; for a count, missing at user count 0, partial
\* below the required count, complete from the required count on; for a
\* score, missing without user score, complete from the requirement value
\* on, partial below it. The statuses the view shows for a university are
\* these; for an id that matches no university all are not-required.
C22_MatcherTotalAndAsSpecified ==
  /\ \A uniValue \in MatcherValues, userValue \in MatcherValues, count \in MatcherValues :
       (uniValue = Undefined \/ count = Undefined) =>
         MatchedAsClaimed(uniValue, userValue, count)
  /\ response.statuses # NoStatuses =>
       \A u \in universities, p \in profile :
         \/ \A kind \in DOMAIN response.statuses : response.statuses[kind] = "not-required"
         \/ /\ (response.statuses.sat = "partial") = (0 < p.satActual /\ p.satActual < or(u.satMin, u.satAvg))
            /\ (response.statuses.recs = "partial") = (0 < p.recommendationsCount /\ p.recommendationsCount < u.recLettersRequired)
            /\ (response.statuses.essays = "complete") = (p.statementStatus = "complete" /\ u.essaysRequired > 0)
            /\ (response.statuses.toefl = "not-required") = (u.toeflMin = 0)
            /\ (response.statuses.transcript = "missing") = (u.gpaMin > 0)

\* the view was opened: SAT below the requirement, one of two letters, no
\* TOEFL requirement, IELTS score met, interview missing
C22_Witness ==
  /\ response.statuses # NoStatuses
  /\ response.statuses.sat = "partial"
  /\ response.statuses.recs = "partial"
  /\ response.statuses.toefl = "not-required"
  /\ response.statuses.ielts = "complete"
  /\ response.statuses.interview = "missing"

----------------------------------------------------------------------------
(* Properties of the derived requirements.                                 *)

\* what the tasks a generator answer has added for a university are: title,
\* priority and profile item of each
suggestionsCreatedFor(answer, db, universityId) ==
  {<<n.title, n.priority, n.profileItemType>> :
     n \in {t \in rowsCreated(answer, db) : t.universityId = universityId}}

\* C23: UniversityService.update of the flat requirement fields leaves the
\* stored requirements text of the university as it was, so that, the
\* profile being the same, generateTasksForUniversity creates the same
\* tasks after the edit as it would have created before it.
C23_FlatEditKeepsRequirements ==
  \A u \in universities, updates \in FlatFieldUpdates :
    LET edited == UniversityService_update(Store, u.id, updates)
        before == generateTasksForUniversity(Store, u.id)
        after == generateTasksForUniversity(edited, u.id)
    IN  /\ \A e \in getById(edited, u.id) : e.requirements = u.requirements
        /\ after.error = before.error
        /\ suggestionsCreatedFor(after, edited, u.id) =
             suggestionsCreatedFor(before, Store, u.id)

\* the number of letters was edited to 0 and the generate-tasks request
\* answered after it created the recommendations task once more
C23_Witness ==
  \E u \in universities :
    /\ u.recLettersRequired = 0
    /\ parseRequirements(u.requirements).value.recommendations.count = 2
    /\ response.tasksCreated = 1
    /\ Cardinality(suggestedOfKind(tasks, u.id, "recommendations")) = 2

----------------------------------------------------------------------------
(* Properties of the generator's store calls.                              *)

\* `shorter` is what is left of `list` after some of its first elements
ProperSuffix(shorter, list) ==
  /\ Len(shorter) < Len(list)
  /\ shorter = SubSeq(list, Len(list) - Len(shorter) + 1, Len(list))

\* the suggestions a generateTasksForUniversity call has still to create:
\* at most six, of pairwise different kinds
AtMostOnePerKind(pending) ==
  /\ Len(pending) <= 6
  /\ \A i \in 1 .. Len(pending), j \in 1 .. Len(pending) :
       requirementKind(pending[i].title) = requirementKind(pending[j].title) => i = j

\* a step of the request of slot `self`: a TaskService.create takes one
\* suggestion off the pending ones, the loop comes to its guard with a
\* shorter rest of the list each time, and a failed call ends the request
StepsAdvance(self) ==
  LET r == requests[self]
      n == requests'[self]
  IN  (n # r) =>
        /\ r.pc = "generateTasksForUniversity: TaskService.create" =>
             /\ tasks' # tasks \/ n.error = "SQLITE_ERROR"
             /\ n.pending = Tail(r.pending) \/ n.pending = <<>>
        /\ r.pc # "generateTasksForUniversity: TaskService.create" => tasks' = tasks
        /\ (n.pc = "generateTasksForProfileUpdate: getByUniversity"
              /\ r.pc # "generateTasksForProfileUpdate: getAll") =>
             ProperSuffix(n.list, r.list)
        /\ (r.pc \in GeneratorCalls /\ r.list # <<>> /\ n.list # r.list) =>
             ProperSuffix(n.list, r.list)
        /\ n.error = "SQLITE_ERROR" => n.pc = "done"

\* C25: generateTasksForUniversity makes at most one TaskService.create per
\* rule, six at most, generateTasksForProfileUpdate comes to each
\* university of the list once, in list order, a store call that fails
\* ends the call at once, and every call of the two comes to its end when
\* every store call completes or fails.
C25_GeneratorTerminates ==
  /\ [](\A self \in Slots : AtMostOnePerKind(requests[self].pending))
  /\ [][\A self \in Slots : StepsAdvance(self)]_vars
  /\ \A self \in Slots : InFlight(requests[self]) ~> (requests[self].pc = "done")

\* the generate-tasks request has made its six creations and answered
C25_Witness ==
  \E self \in Slots :
    /\ requests[self].op = "POST /api/universities/:id/generate-tasks"
    /\ requests[self].pc = "done"
    /\ Cardinality(requests[self].created) = 6
    /\ response.tasksCreated = 6

\* the request of slot `self` ends in this step: what it has created stays
\* stored; an error of the generator reaches the handler, which answers
\* 500 for generate-tasks; a call that ends without error has created for
\* each university all the tasks whose rules fire or none
EndsAsClaimed(self) ==
  LET r == requests[self]
      n == requests'[self]
  IN  (r.pc \in GeneratorCalls /\ n.pc = "done") =>
        /\ n.created \subseteq {t.id : t \in tasks'}
        /\ r.error = ""
        /\ (n.error # "" /\ n.op = "POST /api/universities/:id/generate-tasks") =>
             response' = Response(500, n.error, 0)
        /\ n.error = "" =>
             \A u \in universities, p \in profile' :
               kindsCreatedFor(tasks', n.created, u) \in {{}, firingKinds(u, p)}

\* C28: generation is not transactional: when a store call or the parse of
\* a requirements text fails inside generateTasksForUniversity or
\* generateTasksForProfileUpdate, the tasks the call has created stay
\* stored, the call does nothing more and its error reaches its caller;
\* only such a call leaves a university with some but not all of the
\* tasks whose rules fire.
C28_NotTransactional ==
  /\ [][tasks \subseteq tasks']_vars
  /\ [][\A self \in Slots : EndsAsClaimed(self)]_vars
  /\ [][\A self \in Slots :
          requests[self].pc = "done" => requests'[self] = requests[self]]_vars

\* a generate-tasks request ended by a failed store call after it had
\* created some of the six tasks, and was answered 500
C28_Witness ==
  \E self \in Slots, u \in universities, p \in profile :
    /\ requests[self].op = "POST /api/universities/:id/generate-tasks"
    /\ requests[self].pc = "done"
    /\ requests[self].error = "SQLITE_ERROR"
    /\ response = Response(500, "SQLITE_ERROR", 0)
    /\ kindsCreatedFor(tasks, requests[self].created, u) # {}
    /\ kindsCreatedFor(tasks, requests[self].created, u) # firingKinds(u, p)
    /\ tasks # {} /\ \A t \in tasks : t.id \in requests[self].created

====
